---------------------------- MODULE Spec2Model ----------------------------
(***************************************************************************)
(* Scene-graph runtime of src/engine/src/index.ts: GameObject / Transform  *)
(* / Component model, the Scene registry and its lifecycle scheduler, the   *)
(* Engine's frame loop, and the UIBehaviour components with their nodes    *)
(* in the host document.                                                   *)
(*                                                                         *)
(* GameObjects are the numbers 1..n, 0 is the null reference.  Components  *)
(* other than Transforms are numbered in creation order from 1.  A         *)
(* scheduler pass (Scene._TickLifecycle) is split at the calls of the      *)
(* user hooks: while pc names a hook, that hook is executing and may call  *)
(* back into the public API; every other value of pc is a position in the  *)
(* scheduler's own code, where nothing else can run (single thread).       *)
(***************************************************************************)
EXTENDS Integers, Sequences, FiniteSets, TLC

VARIABLES
    objects,            \* the GameObjects constructed so far
    activeSelf,         \* GameObject.activeSelf
    parent,             \* Transform.parentTransform (0 = null)
    children,           \* Transform.children
    components,         \* GameObject.components
    comp,               \* the components created by AddComponent: kind, owner, enabled
    sceneRef,           \* GameObject.sceneRef (0 = null, 1 = the Scene)
    rootGameObjects,    \* Scene.rootGameObjects
    monoState,          \* Scene.monoState, a map with a growing domain
    pc,                 \* position of the scheduler pass
    monoBehaviours,     \* _TickLifecycle: const monoBehaviours (the snapshot)
    index,              \* _TickLifecycle: position of the for-of loop
    state,              \* _TickLifecycle: const state (the object it refers to)
    stateInMap,         \* whether that object is still the one monoState holds
    isGameObjectActive, \* _TickLifecycle: const isGameObjectActive
    shouldEnable,       \* _TickLifecycle: const shouldEnable
    ticks,              \* completed scheduler passes
    everAwake,          \* history: behaviours whose Awake has been invoked
    everStarted,        \* history: behaviours whose Start has been invoked
    lastToggle,         \* history: last of OnEnable / OnDisable invoked, per behaviour
    passHooked,         \* history: behaviours that received a hook in the current pass
    addedInPass,        \* history: behaviours attached while the current pass runs
    log,                \* what the logging behaviours wrote
    ops,                \* the script of the end-to-end scenario, as executed
    hookCalls,          \* API calls made from hooks in the current pass
    running,            \* Engine.running
    previousTimestamp,  \* Engine.previousTimestamp, ms
    frameHandle,        \* Engine.frameHandle
    pendingFrames,      \* host: handles of the frame callbacks scheduled, not yet run or cancelled
    nextHandle,         \* host: the handle the next scheduling call returns
    now,                \* host: the clock, ms
    deltaTime,          \* Time.deltaTime, s
    time,               \* Time.time, s
    frameCount,         \* Time.frameCount
    pressedKeys,        \* Input.pressedKeys
    downKeys,           \* Input.downKeys
    upKeys,             \* Input.upKeys
    epc,                \* position of Engine.Loop
    surface,            \* the Renderers drawn since the surface was last cleared
    frameTrace,         \* history: the stages the running tick has performed
    domElement,         \* UIBehaviour.domElement (0 = null), per component
    contentElement,     \* ScrollRect.contentElement, per component
    attachedParent,     \* UIBehaviour.attachedParent, per component
    Visible,            \* UIBehaviour.Visible, per component
    Interactable,       \* UIBehaviour.Interactable, per component
    parentElement,      \* host document: Node.parentElement, per node
    childNodes,         \* host document: the child elements of a node, in order
    hidden,             \* host document: HTMLElement.hidden, per node
    pointerEvents,      \* host document: style.pointerEvents, per node ("" = not set)
    disabled,           \* host document: HTMLButtonElement.disabled, per node
    nodesCreated,       \* host document: the elements created for each component
    hookRan,            \* whether the body of the executing UI hook has run
    destroyed,          \* history: the UI components whose OnDestroy has run
    localPosition,      \* Transform.localPosition (one coordinate), per GameObject
    selectedMachine,    \* game: the id of selectedMachine, Null for null
    machine4Mode,       \* game: machine4Mode
    machine4FreeSpinsRemaining, \* game: machine4FreeSpinsRemaining
    balance,            \* game: balance
    currentBet,         \* game: currentBet
    totalRewards,       \* game: totalRewards
    spinInProgress,     \* game: spinInProgress
    spinCancellationToken, \* game: spinCancellationToken
    machineViewActive,  \* game: machineView.root.activeSelf
    spins,              \* game: the RunSpin invocations under way, with their locals
    currentGrid,        \* game: currentGrid, the grid on the board
    reelStrip,          \* game: machine3ReelAxes / machine4ReelAxes: axis.strip
    reelPosition,       \* game: machine3ReelAxes / machine4ReelAxes: axis.position
    highlight           \* game: some cell panels carry the win-line border

treeVars == <<activeSelf, parent, children>>
compVars == <<components, comp>>
sceneVars == <<sceneRef, rootGameObjects, monoState>>
passVars == <<pc, monoBehaviours, index, state, stateInMap, isGameObjectActive,
              shouldEnable, ticks>>
histVars == <<everAwake, everStarted, lastToggle, passHooked, log>>
script == <<ops, hookCalls>>
sceneGraph == <<objects, treeVars, compVars, sceneVars, passVars, histVars, addedInPass>>
loopVars == <<running, previousTimestamp, frameHandle>>
frameVars == <<pendingFrames, nextHandle, now>>
timeVars == <<deltaTime, time, frameCount>>
inputVars == <<pressedKeys, downKeys, upKeys>>
engineVars == <<loopVars, frameVars, timeVars, inputVars, epc, surface, frameTrace>>
fieldVars == <<domElement, contentElement, attachedParent, Visible, Interactable>>
documentVars == <<parentElement, childNodes, hidden, pointerEvents, disabled, nodesCreated>>
uiVars == <<fieldVars, documentVars, hookRan, destroyed>>
hostVars == <<engineVars, uiVars>>
positionVars == <<localPosition>>
walletVars == <<balance, currentBet, totalRewards>>
machineVars == <<selectedMachine, machine4Mode, machine4FreeSpinsRemaining, machineViewActive>>
spinVars == <<spinInProgress, spinCancellationToken, spins>>
boardVars == <<currentGrid, reelStrip, reelPosition, highlight>>
gameVars == <<walletVars, machineVars, spinVars, boardVars>>
vars == <<sceneGraph, script, hostVars, positionVars, gameVars>>

----------------------------------------------------------------------------
\* Bounds of the model.

TreeObjects == 3        \* GameObjects of the hierarchy specification
SceneObjects == 2       \* GameObjects of the scheduler specification
MaxComponents == 2      \* components AddComponent may create
MaxTicks == 2           \* scheduler passes of the scheduler specification
MaxHookCalls == 1       \* API calls the hooks of one pass make
MaxScript == 6          \* steps of the end-to-end scenario
MaxHandles == 4         \* frame handles the host issues to Start and to new ticks
UIComponents == 3       \* UI components of the UI hierarchy specification
MaxCreations == 2       \* element creations per UI component
StyledComponents == 1   \* UI components of the visibility specification
ChainLength == 5        \* Transforms of the world-position specification
SignificandBits == 4    \* bits of the significand of a number (53 in the source)
MaxBalance == 4         \* the balance the game specification goes up to
BetCap == 2             \* the bet the game specification goes up to
MaxSpins == 2           \* RunSpin invocations under way at a time
MaxToken == 4           \* values of the cancellation token
MaxReelSteps == 1       \* reel steps of one spin animation
MaxFreeSpins == 3       \* free spins of machine 4 held at a time
StripLength == 2        \* grids on the strip of a reel axis
MaxPasses == 4          \* completed passes the counter ticks tells apart

Null == 0
TheScene == 1

ComponentIds == 1..MaxComponents

----------------------------------------------------------------------------
\* Sequences as the arrays of the source.

Includes(s, x) == \E i \in 1..Len(s) : s[i] = x

Count(s, x) == Cardinality({i \in 1..Len(s) : s[i] = x})

IndexOf(s, x) ==
    IF Includes(s, x) THEN CHOOSE i \in 1..Len(s) : s[i] = x /\ \A j \in 1..(i - 1) : s[j] # x
    ELSE -1

\* Array.splice(i, 1), i counted from 1
Splice(s, i) == SubSeq(s, 1, i - 1) \o SubSeq(s, i + 1, Len(s))

RECURSIVE Flatten(_)
Flatten(ss) == IF ss = <<>> THEN <<>> ELSE Head(ss) \o Flatten(Tail(ss))

----------------------------------------------------------------------------
\* Component kinds.  LoggingBehaviour is the MonoBehaviour subclass of the
\* end-to-end scenario: each of its hooks appends its own name to the log.

TransformKind == "Transform"

\* The UIBehaviour subclasses of the model.
UIKinds == {"Canvas", "Panel", "Text", "Button", "Image", "ScrollRect"}

MonoKinds == {"MonoBehaviour", "LoggingBehaviour"} \cup UIKinds

\* component instanceof MonoBehaviour
IsMono(c) == c.kind \in MonoKinds

\* The Transform of GameObject g, created by its constructor (this.transform):
\* Transforms carry the negated number of their owner.
TransformOf(g) == [kind |-> TransformKind, id |-> 0 - g]

Created == {i \in DOMAIN comp : comp[i].kind # "none"}

FreshState == [awake |-> FALSE, started |-> FALSE, enabledInHierarchy |-> FALSE]

----------------------------------------------------------------------------
\* Transform and GameObject.

\* A slip: the parent chain is not followed.
activeInHierarchySelfOnly(g) == activeSelf[g]

\* A slip: only the parent's own flag is read, not the parent's activeInHierarchy.
activeInHierarchyOneLevel(g) ==
    activeSelf[g] /\ (parent[g] = Null \/ activeSelf[parent[g]])

\* GameObject.activeInHierarchy: recomputed on every read, up the parent chain.
RECURSIVE activeInHierarchy(_)
activeInHierarchy(g) ==
    IF ~activeSelf[g] THEN FALSE
    ELSE IF parent[g] = Null THEN TRUE
    ELSE activeInHierarchy(parent[g])

\* A slip: deactivation is acted upon at once, the behaviours are marked as
\* disabled in the lifecycle table.
SetActiveEager(g, value) ==
    /\ activeSelf' = [activeSelf EXCEPT ![g] = value]
    /\ monoState' = IF value THEN monoState
                    ELSE [b \in DOMAIN monoState |->
                             [monoState[b] EXCEPT !.enabledInHierarchy = FALSE]]
    /\ UNCHANGED <<objects, parent, children, compVars, sceneRef, rootGameObjects,
                   passVars, histVars, addedInPass>>

\* GameObject.SetActive
SetActive(g, value) ==
    /\ activeSelf' = [activeSelf EXCEPT ![g] = value]
    /\ UNCHANGED <<objects, parent, children, compVars, sceneVars, passVars, histVars,
                   addedInPass>>

\* A slip: the child is not taken out of its previous parent's list.
SetParentChildrenNoDetach(c, p) ==
    IF p # Null THEN [children EXCEPT ![p] = Append(@, c)] ELSE children

\* Transform.SetParent: the child lists after the call.
SetParentChildren(c, p) ==
    LET old == parent[c]
        index0 == IF old # Null THEN IndexOf(children[old], c) ELSE -1
        detached == IF old # Null /\ index0 >= 1
                    THEN [children EXCEPT ![old] = Splice(@, index0)]
                    ELSE children
    IN  IF p # Null THEN [detached EXCEPT ![p] = Append(@, c)] ELSE detached

\* The transforms below g, through the child lists (the hierarchy is acyclic).
RECURSIVE Descendants(_)
Descendants(g) ==
    LET kids == {children[g][i] : i \in 1..Len(children[g])}
    IN  kids \cup UNION {Descendants(k) : k \in kids}

\* SetParent(p) on c keeps the hierarchy free of cycles: the source does not
\* check it, the callers have to.
KeepsAcyclic(c, p) == p = Null \/ (p # c /\ p \notin Descendants(c))

\* A slip: a call that would close a cycle is refused.
SetParentChecked(c, p) ==
    /\ IF parent[c] = p \/ ~KeepsAcyclic(c, p)
       THEN UNCHANGED <<parent, children>>
       ELSE /\ parent' = [parent EXCEPT ![c] = p]
            /\ children' = SetParentChildren(c, p)
    /\ UNCHANGED <<objects, activeSelf, compVars, sceneVars, passVars, histVars,
                   addedInPass>>

\* Transform.SetParent
SetParent(c, p) ==
    /\ IF parent[c] = p
       THEN UNCHANGED <<parent, children>>
       ELSE /\ parent' = [parent EXCEPT ![c] = p]
            /\ children' = SetParentChildren(c, p)
    /\ UNCHANGED <<objects, activeSelf, compVars, sceneVars, passVars, histVars,
                   addedInPass>>

----------------------------------------------------------------------------
\* Scene.

\* Scene.CollectGameObjects: depth-first, parent before children.
RECURSIVE CollectGameObjects(_)
CollectGameObjects(current) ==
    <<current>> \o Flatten([i \in 1..Len(children[current]) |->
                                CollectGameObjects(children[current][i])])

\* Scene.GetAllGameObjects
GetAllGameObjects ==
    Flatten([i \in 1..Len(rootGameObjects) |-> CollectGameObjects(rootGameObjects[i])])

\* GameObject.GetComponents(MonoBehaviour), as component numbers
GetMonoComponents(g) ==
    LET matching == SelectSeq(components[g], IsMono)
    IN  [i \in 1..Len(matching) |-> matching[i].id]

\* Scene.GetComponentsInScene(MonoBehaviour)
GetComponentsInScene ==
    LET all == GetAllGameObjects
    IN  Flatten([i \in 1..Len(all) |-> GetMonoComponents(all[i])])

\* Scene.RegisterMonoBehavioursFor: the state table after the call.
RegisterMonoBehavioursFor(g) ==
    LET registered == {components[g][i].id :
                          i \in {j \in 1..Len(components[g]) : IsMono(components[g][j])}}
    IN  [m \in DOMAIN monoState \cup registered |->
            IF m \in registered THEN FreshState ELSE monoState[m]]

\* The behaviour whose hook is executing, 0 outside hooks.
HookPcs == {"Awake", "OnEnable", "Start", "Update", "OnDisable"}
Current == IF pc \in HookPcs THEN monoBehaviours[index] ELSE 0

\* A slip: the includes test is missing.
RootsAfterAddAlwaysPush(g) == Append(rootGameObjects, g)

\* this.rootGameObjects after AddGameObject(g)
RootsAfterAdd(g) ==
    IF ~Includes(rootGameObjects, g) THEN Append(rootGameObjects, g) ELSE rootGameObjects

\* Scene.AddGameObject.  With one Scene the "belongs to another scene" throw
\* cannot happen.  The local state object of a running pass is no longer the
\* table's when the table entry of its behaviour is replaced.
AddGameObject(g) ==
    /\ sceneRef[g] \in {Null, TheScene}
    /\ rootGameObjects' = RootsAfterAdd(g)
    /\ sceneRef' = [h \in DOMAIN sceneRef |->
                       IF h = g \/ h \in Descendants(g) THEN TheScene ELSE sceneRef[h]]
    /\ monoState' = RegisterMonoBehavioursFor(g)
    /\ stateInMap' = IF Current # 0 /\ comp[Current].owner = g THEN FALSE ELSE stateInMap
    /\ UNCHANGED <<objects, treeVars, compVars, pc, monoBehaviours, index, state,
                   isGameObjectActive, shouldEnable, ticks, histVars, addedInPass>>

\* A slip: the notification is dropped.
OnComponentAddedDropped(c) == monoState

\* Scene._OnComponentAdded: the state table after the call.
OnComponentAdded(c) ==
    IF ~IsMono(c) THEN monoState
    ELSE [m \in DOMAIN monoState \cup {c.id} |-> IF m = c.id THEN FreshState ELSE monoState[m]]

\* new componentType(): the next component, numbered in creation order.
NewComponent(kind) == [kind |-> kind, id |-> Cardinality(Created) + 1]

\* GameObject.AddComponent: the component it returns.
AddComponentResult(g, kind) ==
    IF kind = TransformKind THEN TransformOf(g) ELSE NewComponent(kind)

\* GameObject.AddComponent past the Transform test: construct, attach, push,
\* notify the hosting Scene.
AttachNew(g, kind) ==
    LET c == NewComponent(kind) IN
    /\ c.id \in DOMAIN comp
    /\ comp' = [comp EXCEPT ![c.id] = [kind |-> kind, owner |-> g, enabled |-> TRUE]]
    /\ components' = [components EXCEPT ![g] = Append(@, c)]
    /\ monoState' = IF sceneRef[g] # Null THEN OnComponentAdded(c) ELSE monoState
    /\ addedInPass' = IF pc # "idle" /\ IsMono(c) THEN addedInPass \cup {c.id}
                      ELSE addedInPass
    /\ UNCHANGED <<objects, treeVars, sceneRef, rootGameObjects, passVars, histVars>>

\* A slip: the Transform test is missing, a second Transform is constructed.
AddComponentAlwaysNew(g, kind) == AttachNew(g, kind)

\* GameObject.AddComponent
AddComponent(g, kind) ==
    IF kind = TransformKind
    THEN UNCHANGED <<objects, treeVars, compVars, sceneVars, passVars, histVars, addedInPass>>
    ELSE AttachNew(g, kind)

\* Behaviour.enabled = value
SetEnabled(m, value) ==
    /\ comp[m].kind # "none"
    /\ comp' = [comp EXCEPT ![m].enabled = value]
    /\ UNCHANGED <<objects, treeVars, components, sceneVars, passVars, histVars, addedInPass>>

----------------------------------------------------------------------------
\* Scene._TickLifecycle, split at the hook calls.

\* A slip: the state created on a first visit counts as started.
EnsureStateStarted(b) ==
    IF b \in DOMAIN monoState THEN monoState
    ELSE [m \in DOMAIN monoState \cup {b} |->
            IF m = b THEN [FreshState EXCEPT !.started = TRUE] ELSE monoState[m]]

\* Scene.EnsureState: the state table after the call.
EnsureState(b) ==
    IF b \in DOMAIN monoState THEN monoState
    ELSE [m \in DOMAIN monoState \cup {b} |-> IF m = b THEN FreshState ELSE monoState[m]]

\* A write to a field of the local state object: the table sees it as long as
\* the table still holds that object.
WriteState(b, new) ==
    /\ state' = new
    /\ monoState' = IF stateInMap THEN [monoState EXCEPT ![b] = new] ELSE monoState

\* behaviour.<hook>?.(): the call of a hook of b.  The history variables record
\* it; a logging behaviour's hook writes its name to the log.
Invoke(b, hook) ==
    /\ pc' = hook
    /\ everAwake' = IF hook = "Awake" THEN everAwake \cup {b} ELSE everAwake
    /\ everStarted' = IF hook = "Start" THEN everStarted \cup {b} ELSE everStarted
    /\ lastToggle' = IF hook \in {"OnEnable", "OnDisable"}
                     THEN [lastToggle EXCEPT ![b] = hook]
                     ELSE lastToggle
    /\ passHooked' = passHooked \cup {b}
    /\ log' = IF comp[b].kind = "LoggingBehaviour" THEN Append(log, hook) ELSE log

NoInvoke(next) ==
    /\ pc' = next
    /\ UNCHANGED histVars

\* const monoBehaviours = this.GetComponentsInScene(MonoBehaviour)
TickBegin ==
    /\ pc = "idle"
    /\ monoBehaviours' = GetComponentsInScene
    /\ index' = 1
    /\ pc' = "loop"
    /\ passHooked' = {}
    /\ addedInPass' = {}
    /\ UNCHANGED <<objects, treeVars, compVars, sceneVars, state, stateInMap,
                   isGameObjectActive, shouldEnable, ticks, everAwake, everStarted,
                   lastToggle, log>>

\* The for-of loop is exhausted: the pass returns and its locals are gone.
TickEnd ==
    /\ pc = "loop"
    /\ index > Len(monoBehaviours)
    /\ pc' = "idle"
    /\ ticks' = IF ticks < MaxPasses THEN ticks + 1 ELSE ticks
    /\ monoBehaviours' = <<>>
    /\ index' = 0
    /\ passHooked' = {}
    /\ addedInPass' = {}
    /\ UNCHANGED <<objects, treeVars, compVars, sceneVars, state, stateInMap,
                   isGameObjectActive, shouldEnable, everAwake, everStarted, lastToggle,
                   log>>

\* Whether Awake is due: if (!state.awake && isGameObjectActive)
AwakeDue(st, active) == ~st.awake /\ active

\* Loop head: EnsureState, the read of activeInHierarchy, the Awake test.
LoopHead ==
    /\ pc = "loop"
    /\ index <= Len(monoBehaviours)
    /\ LET b == monoBehaviours[index]
           table == EnsureState(b)
           active == activeInHierarchy(comp[b].owner)
       IN  /\ monoState' = table
           /\ state' = table[b]
           /\ stateInMap' = TRUE
           /\ isGameObjectActive' = active
           /\ IF AwakeDue(table[b], active) THEN Invoke(b, "Awake") ELSE NoInvoke("enableCheck")
    /\ UNCHANGED <<objects, treeVars, compVars, sceneRef, rootGameObjects, monoBehaviours,
                   index, shouldEnable, ticks, addedInPass>>

\* Awake returned: state.awake = true
AwakeReturn ==
    /\ pc = "Awake"
    /\ WriteState(monoBehaviours[index], [state EXCEPT !.awake = TRUE])
    /\ NoInvoke("enableCheck")
    /\ UNCHANGED <<objects, treeVars, compVars, sceneRef, rootGameObjects, monoBehaviours,
                   index, stateInMap, isGameObjectActive, shouldEnable, ticks, addedInPass>>

\* const shouldEnable = state.awake && isGameObjectActive && behaviour.enabled
ShouldEnable(b) == state.awake /\ isGameObjectActive /\ comp[b].enabled

\* The shouldEnable assignment and the OnEnable test.
EnableCheck ==
    /\ pc = "enableCheck"
    /\ LET b == monoBehaviours[index]
           should == ShouldEnable(b)
       IN  /\ shouldEnable' = should
           /\ IF should /\ ~state.enabledInHierarchy
              THEN Invoke(b, "OnEnable")
              ELSE NoInvoke("startCheck")
    /\ UNCHANGED <<objects, treeVars, compVars, sceneVars, monoBehaviours, index, state,
                   stateInMap, isGameObjectActive, ticks, addedInPass>>

\* OnEnable returned: state.enabledInHierarchy = true
OnEnableReturn ==
    /\ pc = "OnEnable"
    /\ WriteState(monoBehaviours[index], [state EXCEPT !.enabledInHierarchy = TRUE])
    /\ NoInvoke("startCheck")
    /\ UNCHANGED <<objects, treeVars, compVars, sceneRef, rootGameObjects, monoBehaviours,
                   index, stateInMap, isGameObjectActive, shouldEnable, ticks, addedInPass>>

\* A slip: Start no longer waits for shouldEnable.
StartDueWheneverNotStarted(should, st) == ~st.started

\* Whether Start is due: if (shouldEnable && !state.started)
StartDue(should, st) == should /\ ~st.started

StartCheck ==
    /\ pc = "startCheck"
    /\ IF StartDue(shouldEnable, state)
       THEN Invoke(monoBehaviours[index], "Start")
       ELSE NoInvoke("updateCheck")
    /\ UNCHANGED <<objects, treeVars, compVars, sceneVars, monoBehaviours, index, state,
                   stateInMap, isGameObjectActive, shouldEnable, ticks, addedInPass>>

\* Start returned: state.started = true
StartReturn ==
    /\ pc = "Start"
    /\ WriteState(monoBehaviours[index], [state EXCEPT !.started = TRUE])
    /\ NoInvoke("updateCheck")
    /\ UNCHANGED <<objects, treeVars, compVars, sceneRef, rootGameObjects, monoBehaviours,
                   index, stateInMap, isGameObjectActive, shouldEnable, ticks, addedInPass>>

\* if (shouldEnable) behaviour.Update?.()
UpdateCheck ==
    /\ pc = "updateCheck"
    /\ IF shouldEnable
       THEN Invoke(monoBehaviours[index], "Update")
       ELSE NoInvoke("disableCheck")
    /\ UNCHANGED <<objects, treeVars, compVars, sceneVars, monoBehaviours, index, state,
                   stateInMap, isGameObjectActive, shouldEnable, ticks, addedInPass>>

UpdateReturn ==
    /\ pc = "Update"
    /\ NoInvoke("disableCheck")
    /\ UNCHANGED <<objects, treeVars, compVars, sceneVars, monoBehaviours, index, state,
                   stateInMap, isGameObjectActive, shouldEnable, ticks, addedInPass>>

\* The end of one iteration of the loop: its block-scoped constants are gone.
NextBehaviour ==
    /\ index' = index + 1
    /\ state' = FreshState
    /\ stateInMap' = FALSE
    /\ isGameObjectActive' = FALSE
    /\ shouldEnable' = FALSE

\* if (state.enabledInHierarchy && !shouldEnable); without it the loop goes on
DisableCheck ==
    /\ pc = "disableCheck"
    /\ IF state.enabledInHierarchy /\ ~shouldEnable
       THEN /\ Invoke(monoBehaviours[index], "OnDisable")
            /\ UNCHANGED <<index, state, stateInMap, isGameObjectActive, shouldEnable>>
       ELSE /\ NoInvoke("loop")
            /\ NextBehaviour
    /\ UNCHANGED <<objects, treeVars, compVars, sceneVars, monoBehaviours, ticks,
                   addedInPass>>

\* OnDisable returned: state.enabledInHierarchy = false, next behaviour
OnDisableReturn ==
    /\ pc = "OnDisable"
    /\ monoState' = IF stateInMap
                    THEN [monoState EXCEPT ![monoBehaviours[index]].enabledInHierarchy = FALSE]
                    ELSE monoState
    /\ NoInvoke("loop")
    /\ NextBehaviour
    /\ UNCHANGED <<objects, treeVars, compVars, sceneRef, rootGameObjects, monoBehaviours,
                   ticks, addedInPass>>

\* One step of a running pass.
TickStep ==
    \/ LoopHead
    \/ AwakeReturn
    \/ EnableCheck
    \/ OnEnableReturn
    \/ StartCheck
    \/ StartReturn
    \/ UpdateCheck
    \/ UpdateReturn
    \/ DisableCheck
    \/ OnDisableReturn
    \/ TickEnd

----------------------------------------------------------------------------
\* Time, Input and the Engine's frame loop.  Timestamps are milliseconds; the
\* host clock moves in whole seconds, so that the division by 1000 is exact.
\* Engine.Loop is split where it calls the scheduler, Render and
\* Input._EndFrame; epc is its position ("idle": no callback is executing).

Keys == {"Space"}
FrameDeltas == {1000, 2000}

RendererKinds == {"Renderer"}

\* component instanceof Renderer
IsRenderer(c) == c.kind \in RendererKinds

\* GameObject.GetComponents(Renderer), as component numbers
GetRendererComponents(g) ==
    LET matching == SelectSeq(components[g], IsRenderer)
    IN  [i \in 1..Len(matching) |-> matching[i].id]

\* Scene.GetComponentsInScene(Renderer)
GetRenderersInScene ==
    LET all == GetAllGameObjects
    IN  Flatten([i \in 1..Len(all) |-> GetRendererComponents(all[i])])

\* A slip: the owner's activation is not looked at.
DrawnIfEnabled(r) == comp[r].enabled

\* Engine.Render: the test that lets a renderer draw.
Drawn(r) == comp[r].enabled /\ activeInHierarchy(comp[r].owner)

\* Engine.Render: the surface is cleared, then every renderer of the Scene that
\* passes the test draws, in collection order.
Render ==
    /\ surface' = SelectSeq(GetRenderersInScene, Drawn)
    /\ UNCHANGED <<sceneGraph, loopVars, frameVars, timeVars, inputVars>>

\* A slip: the delta is taken from time zero.
DeltaSecondsFromZero(timestamp) == timestamp \div 1000

\* Engine.Loop: const deltaSeconds
DeltaSeconds(timestamp) == (timestamp - previousTimestamp) \div 1000

\* Time._SetFrame
SetFrame(delta) ==
    /\ deltaTime' = delta
    /\ time' = time + delta
    /\ frameCount' = frameCount + 1

\* Input.OnKeyDown
OnKeyDown(key) ==
    /\ downKeys' = IF key \notin pressedKeys THEN downKeys \cup {key} ELSE downKeys
    /\ pressedKeys' = pressedKeys \cup {key}
    /\ UNCHANGED <<sceneGraph, loopVars, frameVars, timeVars, upKeys, epc, surface, frameTrace>>

\* Input.OnKeyUp
OnKeyUp(key) ==
    /\ pressedKeys' = pressedKeys \ {key}
    /\ upKeys' = upKeys \cup {key}
    /\ UNCHANGED <<sceneGraph, loopVars, frameVars, timeVars, downKeys, epc, surface, frameTrace>>

\* Input._EndFrame
EndFrame ==
    /\ downKeys' = {}
    /\ upKeys' = {}
    /\ UNCHANGED pressedKeys

\* Engine.ScheduleNextFrame(this.Loop), assigned to frameHandle: the host keeps
\* the callback under a new handle.
ScheduleNextFrame ==
    /\ frameHandle' = nextHandle
    /\ pendingFrames' = pendingFrames \cup {nextHandle}
    /\ nextHandle' = nextHandle + 1

\* Engine.CancelFrame: the callbacks the host still keeps.  Cancelling a handle
\* whose callback has run changes nothing.
CancelFrame(handle) == pendingFrames \ {handle}

\* Engine.Start past the running test.
Starting ==
    /\ running' = TRUE
    /\ previousTimestamp' = now
    /\ ScheduleNextFrame
    /\ UNCHANGED <<sceneGraph, now, timeVars, inputVars, epc, surface, frameTrace>>

\* A slip: the running test is missing.
EngineStartUnguarded == Starting

\* Engine.Start
EngineStart ==
    IF running THEN UNCHANGED <<sceneGraph, engineVars>> ELSE Starting

\* Engine.Stop
EngineStop ==
    IF ~running
    THEN UNCHANGED <<sceneGraph, engineVars>>
    ELSE /\ running' = FALSE
         /\ pendingFrames' = CancelFrame(frameHandle)
         /\ UNCHANGED <<sceneGraph, previousTimestamp, frameHandle, nextHandle, now,
                        timeVars, inputVars, epc, surface, frameTrace>>

\* The host runs the callback it keeps under handle h, at host time timestamp:
\* Engine.Loop up to its call of the scheduler.
Loop(h, timestamp) ==
    /\ epc = "idle"
    /\ h \in pendingFrames
    /\ pendingFrames' = pendingFrames \ {h}
    /\ now' = timestamp
    /\ IF ~running
       THEN UNCHANGED <<loopVars, timeVars, epc, frameTrace>>
       ELSE /\ previousTimestamp' = timestamp
            /\ SetFrame(DeltaSeconds(timestamp))
            /\ epc' = "tick"
            /\ frameTrace' = <<"clock">>
            /\ UNCHANGED <<running, frameHandle>>
    /\ UNCHANGED <<sceneGraph, nextHandle, inputVars, surface>>

\* Engine.Loop: this.scene._TickLifecycle() is entered
LoopTickLifecycle ==
    /\ epc = "tick"
    /\ TickBegin
    /\ epc' = "lifecycle"
    /\ frameTrace' = Append(frameTrace, "lifecycle")
    /\ UNCHANGED <<loopVars, frameVars, timeVars, inputVars, surface>>

\* Engine.Loop: a step of the scheduler pass; when the pass returns, Render is next.
LoopLifecycleStep ==
    /\ epc = "lifecycle"
    /\ TickStep
    /\ epc' = IF pc' = "idle" THEN "render" ELSE "lifecycle"
    /\ UNCHANGED <<loopVars, frameVars, timeVars, inputVars, surface, frameTrace>>

\* Engine.Loop: this.Render()
LoopRender ==
    /\ epc = "render"
    /\ Render
    /\ epc' = "endFrame"
    /\ frameTrace' = Append(frameTrace, "render")

\* Engine.Loop: Input._EndFrame()
LoopEndFrame ==
    /\ epc = "endFrame"
    /\ EndFrame
    /\ epc' = "schedule"
    /\ frameTrace' = Append(frameTrace, "latches")
    /\ UNCHANGED <<sceneGraph, loopVars, frameVars, timeVars, surface>>

\* Engine.Loop: this.frameHandle = this.ScheduleNextFrame(this.Loop); the
\* callback returns.
LoopSchedule ==
    /\ epc = "schedule"
    /\ ScheduleNextFrame
    /\ epc' = "idle"
    /\ frameTrace' = <<>>
    /\ UNCHANGED <<sceneGraph, running, previousTimestamp, now, timeVars, inputVars, surface>>

\* The Engine after its constructor, the statics of Time and Input as declared.
InitEngine ==
    /\ running = FALSE
    /\ previousTimestamp = 0
    /\ frameHandle = -1
    /\ pendingFrames = {}
    /\ nextHandle = 1
    /\ now = 0
    /\ deltaTime = 0
    /\ time = 0
    /\ frameCount = 0
    /\ pressedKeys = {}
    /\ downKeys = {}
    /\ upKeys = {}
    /\ epc = "idle"
    /\ surface = <<>>
    /\ frameTrace = <<>>

----------------------------------------------------------------------------
\* UIBehaviour and the host document.  Node 1 is the Engine's UI root, created
\* by the Engine's constructor; the n-th element created for component c and,
\* for a ScrollRect, the content node created with it have numbers of their own.
\* The functions of this section take and return the host state as a record
\* (the component fields and the document), so that the statements of a hook
\* compose; thrown is set when a statement throws.  Style properties other than
\* hidden are not part of the model.

UIRootElement == 1

UISlots == 1..UIComponents

ElementNode(c, n) == 2 * ((c - 1) * MaxCreations + n)
ContentNode(c, n) == ElementNode(c, n) + 1

Nodes == 1..(2 * UIComponents * MaxCreations + 1)

Host ==
    [domElement |-> domElement, contentElement |-> contentElement,
     attachedParent |-> attachedParent, parentElement |-> parentElement,
     childNodes |-> childNodes, hidden |-> hidden, pointerEvents |-> pointerEvents,
     disabled |-> disabled, nodesCreated |-> nodesCreated, thrown |-> FALSE]

\* The node and its ancestors in the document.
RECURSIVE InclusiveAncestors(_, _)
InclusiveAncestors(D, node) ==
    IF node = Null THEN {} ELSE {node} \cup InclusiveAncestors(D, D.parentElement[node])

\* Element.remove(): the node leaves its parent's child list.
RemoveNode(D, node) ==
    LET old == D.parentElement[node]
    IN  IF old = Null THEN D
        ELSE [D EXCEPT !.childNodes[old] = Splice(@, IndexOf(@, node)),
                       !.parentElement[node] = Null]

\* target.appendChild(node), for a node that does not contain target: the node
\* leaves its parent and becomes the last child of target.
AppendChild(D, target, node) ==
    LET R == RemoveNode(D, node)
    IN  [R EXCEPT !.childNodes[target] = Append(@, node),
                  !.parentElement[node] = target]

\* CreateElement: one node; a ScrollRect creates the viewport and, inside it,
\* the content node.
CreateElement(D, c) ==
    LET n == D.nodesCreated[c] + 1
        viewport == ElementNode(c, n)
        content == ContentNode(c, n)
        V == [D EXCEPT !.nodesCreated[c] = n, !.domElement[c] = viewport]
    IN  IF comp[c].kind = "ScrollRect"
        THEN [AppendChild(V, viewport, content) EXCEPT !.contentElement[c] = content]
        ELSE V

\* A slip: the test for an existing node is missing.
EnsureDomElementAlways(D, c) == CreateElement(D, c)

\* UIBehaviour.EnsureDomElement
EnsureDomElement(D, c) ==
    IF D.domElement[c] # Null THEN D ELSE CreateElement(D, c)

\* A slip: a ScrollRect hands out its viewport.
ContentElementOuter(D, c) ==
    LET E == EnsureDomElement(D, c) IN [host |-> E, node |-> E.domElement[c]]

\* UIBehaviour.ContentElement, ScrollRect.ContentElement: the node that takes
\* the children, and the host state after the read.
ContentElement(D, c) ==
    IF comp[c].kind = "ScrollRect" /\ D.contentElement[c] # Null
    THEN [host |-> D, node |-> D.contentElement[c]]
    ELSE LET E == EnsureDomElement(D, c)
         IN  [host |-> E,
              node |-> IF comp[c].kind = "ScrollRect" THEN E.contentElement[c]
                       ELSE E.domElement[c]]

\* GameObject.GetComponent(kind): the first component of the kind, 0 for null
GetComponent(g, kind) ==
    LET matching == SelectSeq(components[g], LAMBDA x : x.kind = kind)
    IN  IF matching = <<>> THEN Null ELSE matching[1].id

\* Scene.GetComponentsInScene(Canvas)
GetCanvasesInScene ==
    LET all == GetAllGameObjects
        canvasesOf(g) == LET matching == SelectSeq(components[g], LAMBDA x : x.kind = "Canvas")
                         IN  [i \in 1..Len(matching) |-> matching[i].id]
    IN  Flatten([i \in 1..Len(all) |-> canvasesOf(all[i])])

\* ResolveParentElement: the kinds looked for on the parent, in this order.
ParentKinds == <<"ScrollRect", "Canvas", "Panel", "Image">>

\* A slip: the component's own GameObject is not excluded.
OtherCanvasesAll(c) == GetCanvasesInScene

\* ResolveParentElement: the Canvases of the Scene that find() accepts.
OtherCanvases(c) ==
    SelectSeq(GetCanvasesInScene, LAMBDA u : comp[u].owner # comp[c].owner)

\* UIBehaviour.ResolveParentElement: the target (0 for null) and the host
\* state after the reads.  The Scene belongs to the Engine.
ResolveParentElement(D, c) ==
    LET g == comp[c].owner
        p == parent[g]
        hosted == IF p = Null THEN <<>>
                  ELSE SelectSeq(ParentKinds, LAMBDA k : GetComponent(p, k) # Null)
        others == OtherCanvases(c)
    IN  IF hosted # <<>> THEN ContentElement(D, GetComponent(p, hosted[1]))
        ELSE IF sceneRef[g] = Null THEN [host |-> D, node |-> Null]
        ELSE IF others # <<>> THEN ContentElement(D, others[1])
        ELSE [host |-> D, node |-> UIRootElement]

\* A slip: the node is appended on every call.
AlreadyBoundNever(D, c, target) == FALSE

\* RefreshParentBinding: the test that ends the call without a mutation.
AlreadyBound(D, c, target) ==
    D.attachedParent[c] = target /\ D.parentElement[D.domElement[c]] = target

\* UIBehaviour.RefreshParentBinding.  appendChild throws when the node contains
\* the target.
RefreshParentBinding(D, c) ==
    LET R == ResolveParentElement(EnsureDomElement(D, c), c)
        E == R.host
        target == R.node
        node == E.domElement[c]
    IN  IF target = Null THEN E
        ELSE IF AlreadyBound(E, c, target) THEN E
        ELSE IF node \in InclusiveAncestors(E, target) THEN [E EXCEPT !.thrown = TRUE]
        ELSE [AppendChild(E, target, node) EXCEPT !.attachedParent[c] = target]

\* RefreshStyle: const isVisible
IsVisible(c) == Visible[c] /\ comp[c].enabled /\ activeInHierarchy(comp[c].owner)

\* A slip: the style of a visible node is written as for an interactable one.
ApplyStyleInteractable(D, c) ==
    [D EXCEPT !.pointerEvents[D.domElement[c]] = "auto",
              !.disabled[D.domElement[c]] = FALSE]

\* RefreshStyle past the visibility test: pointerEvents, and Button.OnApplyStyle.
ApplyStyle(D, c) ==
    [D EXCEPT !.pointerEvents[D.domElement[c]] = IF Interactable[c] THEN "auto" ELSE "none",
              !.disabled[D.domElement[c]] =
                  IF comp[c].kind = "Button" THEN ~Interactable[c] ELSE @]

\* UIBehaviour.RefreshStyle, the host state after it.
RefreshStyle(D, c) ==
    IF D.domElement[c] = Null THEN D
    ELSE IF ~IsVisible(c) THEN [D EXCEPT !.hidden[D.domElement[c]] = TRUE]
    ELSE ApplyStyle([D EXCEPT !.hidden[D.domElement[c]] = FALSE], c)

\* The RectTransform of GameObject g: there is at most one, it carries the
\* negated number of its owner.
RectTransformOf(g) == [kind |-> "RectTransform", id |-> 0 - g]

\* RefreshStyle of a visible component reads its RectTransform (not so a
\* Canvas), and GetRectTransform attaches one to a GameObject that has none.
AttachesRectTransform(D, c) ==
    /\ D.domElement[c] # Null
    /\ IsVisible(c)
    /\ comp[c].kind # "Canvas"
    /\ GetComponent(comp[c].owner, "RectTransform") = Null

\* UIBehaviour.GetRectTransform: this.gameObject.AddComponent(RectTransform)
AddRectTransform(g) ==
    /\ components' = [components EXCEPT ![g] = Append(@, RectTransformOf(g))]
    /\ UNCHANGED <<objects, treeVars, comp, sceneVars, passVars, histVars, addedInPass>>

\* UIBehaviour.OnDisable, the host state after it.
OnDisable(D, c) ==
    IF D.domElement[c] = Null THEN D ELSE [D EXCEPT !.hidden[D.domElement[c]] = TRUE]

BindingHooks == {"Awake", "Start", "Update"}

\* The body of a hook of UI component c up to RefreshStyle.
Bound(c, hook) ==
    IF hook \in BindingHooks THEN RefreshParentBinding(Host, c) ELSE Host

\* The host state after the whole body of the hook.
HookResult(c, hook) ==
    LET B == Bound(c, hook)
    IN  IF B.thrown THEN B
        ELSE IF hook = "OnDisable" THEN OnDisable(B, c)
        ELSE RefreshStyle(B, c)

\* The host state D becomes the state of the component fields and the document.
SetHost(D) ==
    /\ domElement' = D.domElement
    /\ contentElement' = D.contentElement
    /\ attachedParent' = D.attachedParent
    /\ parentElement' = D.parentElement
    /\ childNodes' = D.childNodes
    /\ hidden' = D.hidden
    /\ pointerEvents' = D.pointerEvents
    /\ disabled' = D.disabled
    /\ nodesCreated' = D.nodesCreated
    /\ UNCHANGED <<Visible, Interactable>>

\* A slip: the error of a hook is caught and the loop goes on with the next
\* behaviour.
PassThrownIsolated ==
    /\ pc' = "loop"
    /\ NextBehaviour
    /\ UNCHANGED <<objects, treeVars, compVars, sceneVars, monoBehaviours, ticks, histVars,
                   addedInPass>>

\* An error thrown by a hook leaves Scene._TickLifecycle: the pass is over, its
\* locals are gone.
PassThrown ==
    /\ pc' = "idle"
    /\ monoBehaviours' = <<>>
    /\ index' = 0
    /\ state' = FreshState
    /\ stateInMap' = FALSE
    /\ isGameObjectActive' = FALSE
    /\ shouldEnable' = FALSE
    /\ passHooked' = {}
    /\ addedInPass' = {}
    /\ UNCHANGED <<objects, treeVars, compVars, sceneVars, ticks, everAwake, everStarted,
                   lastToggle, log>>

\* The body of the hook the pass has called on a UI component: Awake, Start,
\* Update, OnEnable or OnDisable of UIBehaviour.
UIHook ==
    /\ pc \in HookPcs
    /\ comp[Current].kind \in UIKinds
    /\ ~hookRan
    /\ LET c == Current
           D == HookResult(c, pc)
       IN  /\ SetHost(D)
           /\ IF D.thrown
              THEN PassThrown /\ UNCHANGED hookRan
              ELSE /\ hookRan' = TRUE
                   /\ IF pc # "OnDisable" /\ AttachesRectTransform(D, c)
                      THEN AddRectTransform(comp[c].owner)
                      ELSE UNCHANGED sceneGraph
    /\ UNCHANGED destroyed

\* The hook of a UI component returns to the pass.
UIHookReturn ==
    /\ pc \in HookPcs => hookRan
    /\ TickStep
    /\ hookRan' = FALSE
    /\ UNCHANGED <<fieldVars, documentVars, destroyed>>

\* A read of UIBehaviour.Element
Element(c) ==
    /\ comp[c].kind \in UIKinds
    /\ SetHost(EnsureDomElement(Host, c))
    /\ UNCHANGED <<sceneGraph, hookRan, destroyed>>

\* UIBehaviour.OnDestroy
OnDestroy(c) ==
    /\ comp[c].kind \in UIKinds
    /\ IF domElement[c] # Null
       THEN SetHost([RemoveNode(Host, domElement[c]) EXCEPT
                        !.domElement[c] = Null, !.attachedParent[c] = Null])
       ELSE UNCHANGED <<fieldVars, documentVars>>
    /\ destroyed' = destroyed \cup {c}
    /\ UNCHANGED <<sceneGraph, hookRan>>

\* gameObject.AddComponent(kind) for a UIBehaviour subclass: the constructor
\* sets Visible and Interactable (false for a Text, true for the others).
AddUIComponent(g, kind) ==
    /\ kind \in UIKinds
    /\ AddComponent(g, kind)
    /\ Visible' = [Visible EXCEPT ![NewComponent(kind).id] = TRUE]
    /\ Interactable' = [Interactable EXCEPT ![NewComponent(kind).id] = (kind # "Text")]
    /\ UNCHANGED <<domElement, contentElement, attachedParent, documentVars, hookRan,
                   destroyed>>

\* component.Visible = value
SetVisible(c, value) ==
    /\ comp[c].kind \in UIKinds
    /\ Visible' = [Visible EXCEPT ![c] = value]
    /\ UNCHANGED <<sceneGraph, domElement, contentElement, attachedParent, Interactable,
                   documentVars, hookRan, destroyed>>

\* component.Interactable = value
SetInteractable(c, value) ==
    /\ comp[c].kind \in UIKinds
    /\ Interactable' = [Interactable EXCEPT ![c] = value]
    /\ UNCHANGED <<sceneGraph, domElement, contentElement, attachedParent, Visible,
                   documentVars, hookRan, destroyed>>

\* No UI component has a node, and the document holds the UI root.
InitHost(slots) ==
    /\ domElement = [c \in slots |-> Null]
    /\ contentElement = [c \in slots |-> Null]
    /\ attachedParent = [c \in slots |-> Null]
    /\ parentElement = [node \in Nodes |-> Null]
    /\ childNodes = [node \in Nodes |-> <<>>]
    /\ hidden = [node \in Nodes |-> FALSE]
    /\ pointerEvents = [node \in Nodes |-> ""]
    /\ disabled = [node \in Nodes |-> FALSE]
    /\ nodesCreated = [c \in slots |-> 0]
    /\ Visible = [c \in slots |-> TRUE]
    /\ Interactable = [c \in slots |-> TRUE]
    /\ hookRan = FALSE
    /\ destroyed = {}

----------------------------------------------------------------------------
\* Initial states: the GameObjects constructed (active, no parent, only the
\* Transform attached), an empty Scene, no pass running.

\* n GameObjects, and room for the components numbered in slots.
InitTreeFor(n, slots) ==
    /\ objects = 1..n
    /\ activeSelf = [g \in 1..n |-> TRUE]
    /\ parent = [g \in 1..n |-> Null]
    /\ children = [g \in 1..n |-> <<>>]
    /\ components = [g \in 1..n |-> <<TransformOf(g)>>]
    /\ comp = [i \in slots |-> [kind |-> "none", owner |-> Null, enabled |-> TRUE]]
    /\ sceneRef = [g \in 1..n |-> Null]
    /\ localPosition = [g \in 1..n |-> 0]

\* The module-level state of the game when it is loaded
StartBalance == 1000
StartBet == 10
NoSpin ==
    [at |-> "none", localSpinToken |-> 0, machine |-> Null, isMachine4Normal |-> FALSE,
     isMachine4FreeSpin |-> FALSE, steps |-> 0, freeSpinsAtStart |-> 0, targetGrid |-> 0]

\* The machines: 3 and 4 have reels, 1 stands for the others.
Machines == {1, 3, 4}
AnimatedMachines == {3, 4}

\* A grid is named by what its paylines hold: 0 matches no line, 1 holds one
\* line of the symbol A.  A reel axis is one strip of grids with a position
\* (one row, one column).
Grids == {0, 1}

\* GetGridFromReelAxes(reelAxes, rows) for the axes of machine m
GetGridFromReelAxes(strip, position, machine) == strip[machine][position[machine] + 1]

InitGameWith(startBalance, startBet) ==
    /\ selectedMachine = Null
    /\ machine4Mode = "normal"
    /\ machine4FreeSpinsRemaining = 0
    /\ balance = startBalance
    /\ currentBet = startBet
    /\ totalRewards = 0
    /\ spinInProgress = FALSE
    /\ spinCancellationToken = 0
    /\ machineViewActive = FALSE
    /\ spins = [i \in 1..MaxSpins |-> NoSpin]
    /\ reelStrip = [machine \in AnimatedMachines |-> [p \in 1..StripLength |-> 0]]
    /\ reelPosition = [machine \in AnimatedMachines |-> 0]
    /\ currentGrid = GetGridFromReelAxes(reelStrip, reelPosition, 3)
    /\ highlight = FALSE

InitObjectsFor(n, slots) ==
    /\ InitTreeFor(n, slots)
    /\ InitGameWith(StartBalance, StartBet)

InitObjects(n) == InitObjectsFor(n, ComponentIds)

InitSceneFor(slots) ==
    /\ rootGameObjects = <<>>
    /\ monoState = << >>
    /\ pc = "idle"
    /\ monoBehaviours = <<>>
    /\ index = 0
    /\ state = FreshState
    /\ stateInMap = FALSE
    /\ isGameObjectActive = FALSE
    /\ shouldEnable = FALSE
    /\ ticks = 0
    /\ everAwake = {}
    /\ everStarted = {}
    /\ lastToggle = [i \in slots |-> "none"]
    /\ passHooked = {}
    /\ addedInPass = {}
    /\ log = <<>>
    /\ ops = <<>>
    /\ hookCalls = 0
    /\ InitEngine
    /\ InitHost(slots)

InitScene == InitSceneFor(ComponentIds)

\* The scheduler specification: passes of the Scene, and the public API called
\* between passes or from a hook of a running pass.
Init ==
    /\ InitObjects(SceneObjects)
    /\ InitScene

Call ==
    \/ \E g \in objects, v \in BOOLEAN : SetActive(g, v)
    \/ \E m \in ComponentIds, v \in BOOLEAN : SetEnabled(m, v)
    \/ \E c \in objects, p \in objects \cup {Null} : KeepsAcyclic(c, p) /\ SetParent(c, p)
    \/ \E g \in objects : AddComponent(g, "MonoBehaviour")
    \/ \E g \in objects : AddGameObject(g)

Next ==
    \/ ticks < MaxTicks /\ TickBegin /\ hookCalls' = 0 /\ UNCHANGED <<ops, positionVars, gameVars, hostVars>>
    \/ TickStep /\ UNCHANGED <<script, positionVars, gameVars, hostVars>>
    \/ pc = "idle" /\ Call /\ UNCHANGED <<script, positionVars, gameVars, hostVars>>
    \/ pc \in HookPcs /\ hookCalls < MaxHookCalls /\ Call
          /\ hookCalls' = hookCalls + 1 /\ UNCHANGED <<ops, positionVars, gameVars, hostVars>>

Spec == Init /\ [][Next]_vars

----------------------------------------------------------------------------
\* The hierarchy alone: activation and reparenting that keeps it acyclic.

InitObjectModel ==
    /\ InitObjects(TreeObjects)
    /\ InitScene

NextObjectModel ==
    \/ \E g \in objects, v \in BOOLEAN : SetActive(g, v) /\ UNCHANGED <<script, positionVars, gameVars, hostVars>>
    \/ \E c \in objects, p \in objects \cup {Null} :
          KeepsAcyclic(c, p) /\ SetParent(c, p) /\ UNCHANGED <<script, positionVars, gameVars, hostVars>>

SpecObjectModel == InitObjectModel /\ [][NextObjectModel]_vars

\* The component lists alone: AddComponent of every kind and the enabled flag,
\* with no Scene hosting the objects.
NextComponents ==
    \/ \E g \in objects, k \in {TransformKind, "MonoBehaviour", "Renderer"} :
          AddComponent(g, k) /\ UNCHANGED <<script, positionVars, gameVars, hostVars>>
    \/ \E m \in ComponentIds, v \in BOOLEAN : SetEnabled(m, v) /\ UNCHANGED <<script, positionVars, gameVars, hostVars>>

SpecComponents == InitObjectModel /\ [][NextComponents]_vars

\* Reparenting alone, every SetParent call allowed (also one that closes a
\* cycle).  ops keeps the last two calls.
LastTwo(s) == IF Len(s) <= 2 THEN s ELSE SubSeq(s, Len(s) - 1, Len(s))

NextReparent ==
    \E c \in objects, p \in objects \cup {Null} :
        SetParent(c, p) /\ ops' = LastTwo(Append(ops, <<c, p>>))
            /\ UNCHANGED <<hookCalls, positionVars, gameVars, hostVars>>

SpecReparent == InitObjectModel /\ [][NextReparent]_vars

----------------------------------------------------------------------------
\* The end-to-end scenario: Root (1) and Child (2), a logging MonoBehaviour on
\* Child, Root hosted by the Scene; the three build calls come in any order,
\* then passes and SetActive calls on Root between passes.  ops is the script
\* executed so far.

Root == 1
Child == 2

BuildOps == {"parent", "attach", "host"}
Built == \A o \in BuildOps : Includes(ops, o)

ScenarioStep(o) ==
    /\ Built
    /\ pc = "idle"
    /\ Len(ops) < 3 + MaxScript
    /\ ops' = Append(ops, o)
    /\ UNCHANGED <<hookCalls, positionVars, gameVars, hostVars>>

BuildStep(o) ==
    /\ pc = "idle"
    /\ ~Includes(ops, o)
    /\ ops' = Append(ops, o)
    /\ UNCHANGED <<hookCalls, positionVars, gameVars, hostVars>>

NextScenario ==
    \/ BuildStep("parent") /\ SetParent(Child, Root)
    \/ BuildStep("attach") /\ AddComponent(Child, "LoggingBehaviour")
    \/ BuildStep("host") /\ AddGameObject(Root)
    \/ ScenarioStep("tick") /\ TickBegin
    \/ TickStep /\ UNCHANGED <<script, positionVars, gameVars, hostVars>>
    \/ ScenarioStep("off") /\ SetActive(Root, FALSE)
    \/ ScenarioStep("on") /\ SetActive(Root, TRUE)

SpecScenario == Init /\ [][NextScenario]_vars

\* Reachability and registration: one logging MonoBehaviour attached to Child
\* at any time, Child parented under Root or not, either GameObject added to
\* the Scene, activation and enabling, all between the passes.  ops keeps, for
\* the running pass, the behaviours it lists that had no lifecycle state when
\* it began.
Unregistered == {m \in Created : Includes(GetComponentsInScene, m) /\ m \notin DOMAIN monoState}

NextLazy ==
    \/ \E p \in {Root, Null} :
          pc = "idle" /\ SetParent(Child, p) /\ UNCHANGED <<script, positionVars, gameVars, hostVars>>
    \/ pc = "idle" /\ Created = {} /\ AddComponent(Child, "LoggingBehaviour")
          /\ UNCHANGED <<script, positionVars, gameVars, hostVars>>
    \/ \E g \in objects :
          pc = "idle" /\ sceneRef[g] = Null /\ AddGameObject(g)
             /\ UNCHANGED <<script, positionVars, gameVars, hostVars>>
    \/ \E g \in objects, v \in BOOLEAN :
          pc = "idle" /\ SetActive(g, v) /\ UNCHANGED <<script, positionVars, gameVars, hostVars>>
    \/ \E m \in Created, v \in BOOLEAN :
          pc = "idle" /\ SetEnabled(m, v) /\ UNCHANGED <<script, positionVars, gameVars, hostVars>>
    \/ ticks < MaxTicks /\ TickBegin /\ ops' = <<Unregistered>>
          /\ UNCHANGED <<hookCalls, positionVars, gameVars, hostVars>>
    \/ TickStep /\ UNCHANGED <<script, positionVars, gameVars, hostVars>>

SpecLazy == Init /\ [][NextLazy]_vars

\* The scenario with flags toggled between the passes: activeSelf of Root and
\* of Child and enabled of the behaviour.  ops keeps the last four calls, a
\* pass with the three flags as it found them.
LastFour(s) == IF Len(s) <= 4 THEN s ELSE SubSeq(s, Len(s) - 3, Len(s))

Flags == [off |-> activeSelf[Root], childOff |-> activeSelf[Child],
          disable |-> \A m \in Created : comp[m].enabled]

\* Root hosts Child, which carries the behaviour.
SceneBuilt ==
    parent[Child] = Root /\ Created # {} /\ Includes(rootGameObjects, Root)

NoFlags == [off |-> FALSE, childOff |-> FALSE, disable |-> FALSE]

ToggleStep(o) ==
    /\ SceneBuilt
    /\ pc = "idle"
    /\ ops' = LastFour(Append(ops, <<o, IF o = "tick" THEN Flags ELSE NoFlags>>))
    /\ UNCHANGED <<hookCalls, positionVars, gameVars, hostVars>>

NextToggle ==
    \/ pc = "idle" /\ parent[Child] = Null /\ SetParent(Child, Root)
          /\ UNCHANGED <<script, positionVars, gameVars, hostVars>>
    \/ pc = "idle" /\ Created = {} /\ AddComponent(Child, "MonoBehaviour")
          /\ UNCHANGED <<script, positionVars, gameVars, hostVars>>
    \/ pc = "idle" /\ ~Includes(rootGameObjects, Root) /\ AddGameObject(Root)
          /\ UNCHANGED <<script, positionVars, gameVars, hostVars>>
    \/ ToggleStep("tick") /\ TickBegin
    \/ TickStep /\ UNCHANGED <<script, positionVars, gameVars, hostVars>>
    \/ \E v \in BOOLEAN :
          ToggleStep(IF v THEN "on" ELSE "off") /\ SetActive(Root, v)
    \/ \E v \in BOOLEAN :
          ToggleStep(IF v THEN "childOn" ELSE "childOff") /\ SetActive(Child, v)
    \/ \E m \in Created, v \in BOOLEAN :
          ToggleStep(IF v THEN "enable" ELSE "disable") /\ SetEnabled(m, v)

SpecToggle == Init /\ [][NextToggle]_vars

\* Scenes built with AddGameObject and SetParent in any order, MonoBehaviours
\* attached at any time, all between the passes.  ops keeps, for the running
\* pass, the behaviours that received Update, in the order of the calls.
UpdatesOf(step) ==
    IF step = "Update" THEN Append(ops, monoBehaviours[index]) ELSE ops

NextUpdates ==
    \/ \E c \in objects, p \in objects \cup {Null} :
          pc = "idle" /\ KeepsAcyclic(c, p) /\ SetParent(c, p)
             /\ UNCHANGED <<script, positionVars, gameVars, hostVars>>
    \/ \E g \in objects :
          pc = "idle" /\ AddComponent(g, "MonoBehaviour")
             /\ UNCHANGED <<script, positionVars, gameVars, hostVars>>
    \/ \E g \in objects :
          pc = "idle" /\ AddGameObject(g) /\ UNCHANGED <<script, positionVars, gameVars, hostVars>>
    \/ ticks < MaxTicks /\ TickBegin /\ ops' = <<>>
          /\ UNCHANGED <<hookCalls, positionVars, gameVars, hostVars>>
    \/ TickStep /\ ops' = UpdatesOf(pc')
          /\ UNCHANGED <<hookCalls, positionVars, gameVars, hostVars>>

SpecUpdates == Init /\ [][NextUpdates]_vars

----------------------------------------------------------------------------
\* The Engine: Start and Stop called between frames or from a hook of the
\* running tick, key events between frames, the frame callbacks the host runs,
\* and a Scene that gets MonoBehaviours between frames.

EngineCall ==
    \/ nextHandle <= MaxHandles /\ EngineStart
    \/ EngineStop

NextEngine ==
    \/ \E g \in objects : epc = "idle" /\ AddComponent(g, "MonoBehaviour")
          /\ UNCHANGED <<script, positionVars, gameVars, hostVars>>
    \/ \E g \in objects : epc = "idle" /\ AddGameObject(g) /\ UNCHANGED <<script, positionVars, gameVars, hostVars>>
    \/ epc = "idle" /\ EngineCall /\ UNCHANGED <<script, positionVars, gameVars, uiVars>>
    \/ pc \in HookPcs /\ hookCalls < MaxHookCalls /\ EngineCall
          /\ hookCalls' = hookCalls + 1 /\ UNCHANGED <<ops, positionVars, gameVars, uiVars>>
    \/ \E key \in Keys : epc = "idle" /\ OnKeyDown(key) /\ UNCHANGED <<script, positionVars, gameVars, uiVars>>
    \/ \E key \in Keys : epc = "idle" /\ OnKeyUp(key) /\ UNCHANGED <<script, positionVars, gameVars, uiVars>>
    \/ \E h \in pendingFrames, d \in FrameDeltas :
          nextHandle <= MaxHandles /\ Loop(h, now + d) /\ UNCHANGED <<script, positionVars, gameVars, uiVars>>
    \/ LoopTickLifecycle /\ hookCalls' = 0 /\ UNCHANGED <<ops, positionVars, gameVars, uiVars>>
    \/ LoopLifecycleStep /\ UNCHANGED <<script, positionVars, gameVars, uiVars>>
    \/ LoopRender /\ UNCHANGED <<script, positionVars, gameVars, uiVars>>
    \/ LoopEndFrame /\ UNCHANGED <<script, positionVars, gameVars, uiVars>>
    \/ LoopSchedule /\ UNCHANGED <<script, positionVars, gameVars, uiVars>>

SpecEngine == Init /\ [][NextEngine]_vars

\* A hook of the running pass throws: the error leaves _TickLifecycle and
\* Engine.Loop, which has no handler; Render, Input._EndFrame and
\* ScheduleNextFrame are not reached.
LoopHookThrows ==
    /\ epc = "lifecycle"
    /\ pc \in HookPcs
    /\ PassThrown
    /\ epc' = "idle"
    /\ frameTrace' = <<>>
    /\ UNCHANGED <<loopVars, frameVars, timeVars, inputVars, surface>>

\* Render of the k-th renderer that draws throws: the renderers before it
\* have drawn, the error leaves Engine.Render and Engine.Loop.
LoopRenderThrows ==
    /\ epc = "render"
    /\ \E k \in 1..Len(SelectSeq(GetRenderersInScene, Drawn)) :
          surface' = SubSeq(SelectSeq(GetRenderersInScene, Drawn), 1, k - 1)
    /\ epc' = "idle"
    /\ frameTrace' = <<>>
    /\ UNCHANGED <<sceneGraph, loopVars, frameVars, timeVars, inputVars>>

\* The frame loop with hooks and renderers that can throw: a Scene that gets
\* MonoBehaviours and Renderers between frames, Start and Stop between
\* frames, and the frame callbacks the host runs.
NextFrames ==
    \/ \E g \in objects, k \in {"MonoBehaviour", "Renderer"} :
          epc = "idle" /\ AddComponent(g, k)
             /\ UNCHANGED <<script, positionVars, gameVars, hostVars>>
    \/ \E g \in objects : epc = "idle" /\ AddGameObject(g) /\ UNCHANGED <<script, positionVars, gameVars, hostVars>>
    \/ epc = "idle" /\ EngineCall /\ UNCHANGED <<script, positionVars, gameVars, uiVars>>
    \/ \E h \in pendingFrames, d \in FrameDeltas :
          nextHandle <= MaxHandles /\ Loop(h, now + d) /\ UNCHANGED <<script, positionVars, gameVars, uiVars>>
    \/ LoopTickLifecycle /\ UNCHANGED <<script, positionVars, gameVars, uiVars>>
    \/ LoopLifecycleStep /\ UNCHANGED <<script, positionVars, gameVars, uiVars>>
    \/ LoopHookThrows /\ UNCHANGED <<script, positionVars, gameVars, uiVars>>
    \/ LoopRender /\ UNCHANGED <<script, positionVars, gameVars, uiVars>>
    \/ LoopRenderThrows /\ UNCHANGED <<script, positionVars, gameVars, uiVars>>
    \/ LoopEndFrame /\ UNCHANGED <<script, positionVars, gameVars, uiVars>>
    \/ LoopSchedule /\ UNCHANGED <<script, positionVars, gameVars, uiVars>>

SpecFrames == Init /\ [][NextFrames]_vars

\* The render pass alone, on every Scene the API builds from two GameObjects
\* and two Renderers.
NextRender ==
    \/ \E g \in objects : AddGameObject(g) /\ UNCHANGED <<script, positionVars, gameVars, hostVars>>
    \/ \E c \in objects, p \in objects \cup {Null} :
          KeepsAcyclic(c, p) /\ SetParent(c, p) /\ UNCHANGED <<script, positionVars, gameVars, hostVars>>
    \/ \E g \in objects : AddComponent(g, "Renderer") /\ UNCHANGED <<script, positionVars, gameVars, hostVars>>
    \/ \E g \in objects, v \in BOOLEAN : SetActive(g, v) /\ UNCHANGED <<script, positionVars, gameVars, hostVars>>
    \/ \E m \in ComponentIds, v \in BOOLEAN : SetEnabled(m, v) /\ UNCHANGED <<script, positionVars, gameVars, hostVars>>
    \/ Render /\ UNCHANGED <<script, positionVars, gameVars, epc, frameTrace, uiVars>>

SpecRender == Init /\ [][NextRender]_vars

----------------------------------------------------------------------------
\* UI components on two GameObjects: the public API and Element reads and
\* OnDestroy calls between passes, and passes whose hooks are UIBehaviour's.

UICreated == {c \in Created : comp[c].kind \in UIKinds}

InitUI ==
    /\ InitObjectsFor(SceneObjects, UISlots)
    /\ InitSceneFor(UISlots)

NextUI ==
    \/ \E g \in objects, k \in {"Canvas", "ScrollRect", "Button"} :
          pc = "idle" /\ Cardinality(UICreated) < MaxComponents /\ AddUIComponent(g, k)
             /\ UNCHANGED <<script, positionVars, gameVars, engineVars>>
    \/ \E g \in objects :
          pc = "idle" /\ sceneRef[g] = Null /\ AddGameObject(g)
             /\ UNCHANGED <<script, positionVars, gameVars, hostVars>>
    \/ \E p \in {1, Null} :
          pc = "idle" /\ SetParent(2, p) /\ UNCHANGED <<script, positionVars, gameVars, hostVars>>
    \/ \E v \in BOOLEAN :
          pc = "idle" /\ SetActive(1, v) /\ UNCHANGED <<script, positionVars, gameVars, hostVars>>
    \/ \E c \in UICreated : pc = "idle" /\ Element(c) /\ UNCHANGED <<script, positionVars, gameVars, engineVars>>
    \/ \E c \in UICreated \ destroyed :
          pc = "idle" /\ domElement[c] # Null /\ ticks > 0 /\ OnDestroy(c)
             /\ UNCHANGED <<script, positionVars, gameVars, engineVars>>
    \/ ticks < MaxTicks /\ TickBegin /\ UNCHANGED <<script, positionVars, gameVars, hostVars>>
    \/ UIHook /\ UNCHANGED <<script, positionVars, gameVars, engineVars>>
    \/ UIHookReturn /\ UNCHANGED <<script, positionVars, gameVars, engineVars>>

SpecUI == InitUI /\ [][NextUI]_vars

----------------------------------------------------------------------------
\* A chain of three GameObjects, 1 > 2 > 3, built in any order of the calls:
\* GameObject 1 goes into the Scene and hosts a container, GameObject 2 may
\* host a Panel, GameObject 3 hosts a Button or a Text.

Cast(g) ==
    IF g = 1 THEN {"Canvas", "ScrollRect", "Panel", "Image"}
    ELSE IF g = 2 THEN {"Panel"}
    ELSE {"Button", "Text"}

HostsUI(g) == \E i \in 1..Len(components[g]) : components[g][i].kind \in UIKinds

InitUIChain ==
    /\ InitObjectsFor(TreeObjects, UISlots)
    /\ InitSceneFor(UISlots)

\* The calls that build the chain.
ChainBuild ==
    \/ \E c \in {2, 3} :
          pc = "idle" /\ parent[c] = Null /\ SetParent(c, c - 1)
             /\ UNCHANGED <<script, positionVars, gameVars, hostVars>>
    \/ pc = "idle" /\ sceneRef[1] = Null /\ AddGameObject(1) /\ UNCHANGED <<script, positionVars, gameVars, hostVars>>
    \/ \E g \in objects : \E k \in Cast(g) :
          pc = "idle" /\ ~HostsUI(g) /\ AddUIComponent(g, k) /\ UNCHANGED <<script, positionVars, gameVars, engineVars>>

\* The steps of a scheduler pass over UI components: its begin, the body of
\* a hook, and the scheduler's own code between the hooks.
PassBegin == TickBegin /\ UNCHANGED <<script, positionVars, gameVars, hostVars>>
HookBody == UIHook /\ UNCHANGED <<script, positionVars, gameVars, engineVars>>
PassStep == UIHookReturn /\ UNCHANGED <<script, positionVars, gameVars, engineVars>>

NextUIChain == ChainBuild \/ (ticks < MaxTicks /\ PassBegin) \/ HookBody \/ PassStep

SpecUIChain == InitUIChain /\ [][NextUIChain]_vars

\* The chain under a running Engine: the frame callback calls
\* Scene._TickLifecycle again and again, and a pass that has begun runs on.
\* The hierarchy changes during the first MaxTicks passes and then no more.
NextUIBinding == (ticks < MaxTicks /\ ChainBuild) \/ PassBegin \/ HookBody \/ PassStep

SpecUIBinding ==
    InitUIChain /\ [][NextUIBinding]_vars /\ WF_vars(PassBegin) /\ WF_vars(PassStep)

----------------------------------------------------------------------------
\* The slot-machine game (src/game/src/main.ts): the wallet, the selected
\* machine and the RunSpin invocations.  RunSpin is an async function: an
\* invocation runs to its first timer wait, and each wake-up of the timer runs
\* it to the next wait or to its end; between these the event handlers run.
\* spins[i].at is where invocation i stands: "started" (the bet is taken, the
\* animation not begun; nothing else runs here), "reels" (at a timer wait of
\* the reel animation), "callback" (at a timer wait of the callback effect of
\* machine 3), "none" (no invocation).

MinBet == 1
MaxBet == 100
PayoutA == 2
MACHINE4_FREE_SPIN_MIN_COUNT == 3
MACHINE4_FREE_SPIN_MAX_COUNT == 8

ClampBet(nextBet) ==
    IF nextBet < MinBet THEN MinBet
    ELSE IF nextBet > MaxBet THEN MaxBet
    ELSE nextBet

\* ChangeBet(offset)
ChangeBet(offset) ==
    /\ currentBet' = ClampBet(currentBet + offset)
    /\ UNCHANGED <<balance, totalRewards, machineVars, spinVars, boardVars>>

\* SetMachine4Mode(mode): machine4Mode after the call, with remaining free spins
SetMachine4Mode(remaining, mode) ==
    IF mode = "freeSpin" /\ remaining <= 0 THEN "normal" ELSE mode

\* OpenMachinePage: currentGrid is read from the reels of the machine, or is
\* SpinSymbols(...) for a machine without reels.
OpenedGrid(machine) ==
    IF machine \in AnimatedMachines
    THEN currentGrid' = GetGridFromReelAxes(reelStrip, reelPosition, machine)
    ELSE currentGrid' \in Grids

\* A slip: machine 4 is opened in free-spin mode whatever is left.
OpenMachinePageFreeSpin(machine) ==
    /\ selectedMachine' = machine
    /\ machine4Mode' = IF machine = 4 THEN "freeSpin" ELSE machine4Mode
    /\ machineViewActive' = TRUE
    /\ OpenedGrid(machine)
    /\ highlight' = FALSE
    /\ UNCHANGED <<machine4FreeSpinsRemaining, walletVars, spinVars, reelStrip, reelPosition>>

\* OpenMachinePage(machine)
OpenMachinePage(machine) ==
    /\ selectedMachine' = machine
    /\ machine4Mode' =
          IF machine = 4
          THEN SetMachine4Mode(machine4FreeSpinsRemaining,
                               IF machine4FreeSpinsRemaining > 0 THEN "freeSpin" ELSE "normal")
          ELSE machine4Mode
    /\ machineViewActive' = TRUE
    /\ OpenedGrid(machine)
    /\ highlight' = FALSE
    /\ UNCHANGED <<machine4FreeSpinsRemaining, walletVars, spinVars, reelStrip, reelPosition>>

\* GoBackToLobby()
GoBackToLobby ==
    /\ spinCancellationToken' = spinCancellationToken + 1
    /\ spinInProgress' = FALSE
    /\ selectedMachine' = Null
    /\ machineViewActive' = FALSE
    /\ highlight' = FALSE
    /\ UNCHANGED <<machine4Mode, machine4FreeSpinsRemaining, walletVars, spins,
                   currentGrid, reelStrip, reelPosition>>

\* A slip: the balance is not compared with the bet.
InsufficientNever(isMachine4FreeSpin) == FALSE

\* if (!isMachine4FreeSpin && balance < currentBet)
Insufficient(isMachine4FreeSpin) == ~isMachine4FreeSpin /\ balance < currentBet

\* RunSpin() from its call to the point where the bet is taken; i is the
\* invocation.  freeSpinsAtStart keeps machine4FreeSpinsRemaining as the call
\* found it (no variable of the code: the history of the invocation).
RunSpin(i) ==
    /\ spins[i].at = "none"
    /\ LET isMachine4Normal == selectedMachine = 4 /\ machine4Mode = "normal"
           isMachine4FreeSpin == selectedMachine = 4 /\ machine4Mode = "freeSpin"
       IN  IF spinInProgress \/ selectedMachine = Null \/ Insufficient(isMachine4FreeSpin)
           THEN UNCHANGED gameVars
           ELSE /\ spinInProgress' = TRUE
                /\ spinCancellationToken' = spinCancellationToken + 1
                /\ highlight' = FALSE
                /\ balance' = IF ~isMachine4FreeSpin THEN balance - currentBet ELSE balance
                /\ \E targetGrid \in Grids :
                      spins' = [spins EXCEPT ![i] =
                                   [at |-> "started",
                                    localSpinToken |-> spinCancellationToken + 1,
                                    machine |-> selectedMachine,
                                    isMachine4Normal |-> isMachine4Normal,
                                    isMachine4FreeSpin |-> isMachine4FreeSpin,
                                    steps |-> 0,
                                    freeSpinsAtStart |-> machine4FreeSpinsRemaining,
                                    targetGrid |-> targetGrid]]
                /\ UNCHANGED <<currentBet, totalRewards, machineVars,
                               currentGrid, reelStrip, reelPosition>>

\* Click on the Normal-mode button of machine 4: the mode is set and a spin is
\* started (RunSpin() with machine4Mode "normal", no free spins left and no
\* spin in progress: only the balance can reject it); i is the invocation.
NormalModeClick(i) ==
    /\ spins[i].at = "none"
    /\ IF selectedMachine # 4 \/ spinInProgress \/ machine4FreeSpinsRemaining > 0
       THEN UNCHANGED gameVars
       ELSE /\ machine4Mode' = SetMachine4Mode(machine4FreeSpinsRemaining, "normal")
            /\ UNCHANGED <<selectedMachine, machine4FreeSpinsRemaining, machineViewActive,
                           currentBet, totalRewards, currentGrid, reelStrip, reelPosition>>
            /\ IF Insufficient(FALSE)
               THEN UNCHANGED <<balance, spinVars, highlight>>
               ELSE /\ spinInProgress' = TRUE
                    /\ spinCancellationToken' = spinCancellationToken + 1
                    /\ highlight' = FALSE
                    /\ balance' = balance - currentBet
                    /\ \E targetGrid \in Grids :
                          spins' = [spins EXCEPT ![i] =
                                       [at |-> "started",
                                        localSpinToken |-> spinCancellationToken + 1,
                                        machine |-> selectedMachine,
                                        isMachine4Normal |-> TRUE,
                                        isMachine4FreeSpin |-> FALSE,
                                        steps |-> 0,
                                        freeSpinsAtStart |-> machine4FreeSpinsRemaining,
                                        targetGrid |-> targetGrid]]

\* Click on the FreeSpin-mode button of machine 4
FreeSpinModeClick ==
    IF selectedMachine # 4 \/ spinInProgress \/ machine4FreeSpinsRemaining <= 0
    THEN UNCHANGED gameVars
    ELSE /\ machine4Mode' = SetMachine4Mode(machine4FreeSpinsRemaining, "freeSpin")
         /\ UNCHANGED <<selectedMachine, machine4FreeSpinsRemaining, machineViewActive,
                        walletVars, spinVars, boardVars>>

\* A slip: ShouldContinue() without the generation token.
ShouldContinueNoToken(s) ==
    /\ selectedMachine = s.machine
    /\ machineViewActive

\* ShouldContinue() of invocation s
ShouldContinue(s) ==
    /\ s.localSpinToken = spinCancellationToken
    /\ selectedMachine = s.machine
    /\ machineViewActive

\* EvaluatePaylines(grid, bet, ...).totalWin: the bet times the multiplier of
\* each matched line
EvaluatePaylines(grid, bet) == IF grid = 1 THEN bet * PayoutA ELSE 0

\* StepReelAxesDown(reelAxes): the positions after the step
StepReelAxesDown(position, machine) ==
    [position EXCEPT ![machine] = (@ + 1) % StripLength]

\* FindPatternStart(strip, pattern): the first start that shows the pattern,
\* -1 for null
FindPatternStart(strip, pattern) ==
    LET starts == {start \in 0..(StripLength - 1) : strip[start + 1] = pattern}
    IN  IF starts = {} THEN -1
        ELSE CHOOSE start \in starts : \A other \in starts : start <= other

\* AlignReelAxesToTargetGrid: the axis is moved to where its strip shows the
\* target, or the strip is overwritten at the position of the axis.
AlignedPosition(strip, position, machine, targetGrid) ==
    LET found == FindPatternStart(strip[machine], targetGrid)
    IN  IF found # -1 THEN [position EXCEPT ![machine] = found] ELSE position

AlignedStrip(strip, position, machine, targetGrid) ==
    LET found == FindPatternStart(strip[machine], targetGrid)
    IN  IF found # -1 THEN strip
        ELSE [strip EXCEPT ![machine][position[machine] + 1] = targetGrid]

\* RollMachine4FreeSpinCount()
FreeSpinAwards == MACHINE4_FREE_SPIN_MIN_COUNT..MACHINE4_FREE_SPIN_MAX_COUNT

\* A slip: a spin in free-spin mode leaves the count of free spins alone.
FreeSpinsAfterKept(s, award) ==
    IF s.machine = 4 /\ s.isMachine4Normal THEN machine4FreeSpinsRemaining + award
    ELSE machine4FreeSpinsRemaining

\* machine4FreeSpinsRemaining after the result of invocation s on machine 4:
\* a normal spin adds the award, a free spin takes one.
FreeSpinsAfter(s, award) ==
    IF s.machine = 4 /\ s.isMachine4Normal THEN machine4FreeSpinsRemaining + award
    ELSE IF s.machine = 4 /\ s.isMachine4FreeSpin
         THEN IF machine4FreeSpinsRemaining > 0
              THEN machine4FreeSpinsRemaining - 1 ELSE 0
    ELSE machine4FreeSpinsRemaining

\* RunSpin from the result to its end: the win is paid and its lines are
\* highlighted, machine 4 changes its mode and its free spins, finally
\* spinInProgress is reset.  totalWin is the win of the grid the caller has
\* put on the board; award is 0 when no free spins are triggered.
SpinResult(i, totalWin, award) ==
    LET s == spins[i]
        remaining == FreeSpinsAfter(s, award)
    IN  /\ balance' = balance + totalWin
        /\ totalRewards' = totalRewards + totalWin
        /\ machine4FreeSpinsRemaining' = remaining
        /\ machine4Mode' =
              IF s.machine = 4 /\ s.isMachine4Normal
              THEN SetMachine4Mode(remaining, IF award > 0 THEN "freeSpin" ELSE "normal")
              ELSE IF s.machine = 4 /\ s.isMachine4FreeSpin
                   THEN SetMachine4Mode(remaining, IF remaining <= 0 THEN "normal" ELSE "freeSpin")
              ELSE machine4Mode
        /\ highlight' = (totalWin > 0)
        /\ spinInProgress' = FALSE
        /\ spins' = [spins EXCEPT ![i] = NoSpin]
        /\ UNCHANGED <<currentBet, selectedMachine, machineViewActive, spinCancellationToken>>

\* if (!ShouldContinue()) return, and the finally block
SpinCanceled(i) ==
    /\ spinInProgress' = FALSE
    /\ spins' = [spins EXCEPT ![i] = NoSpin]
    /\ UNCHANGED <<walletVars, machineVars, spinCancellationToken, boardVars>>

\* The awards a result can bring: free spins are triggered by a normal spin
\* of machine 4 only.
Awards(s) == {0} \cup (IF s.isMachine4Normal THEN FreeSpinAwards ELSE {})

\* RunSpin past the bet: a machine with reels begins its animation and waits
\* for the timer, any other machine shows the target grid and goes on to the
\* result.
SpinPlay(i) ==
    /\ spins[i].at = "started"
    /\ IF spins[i].machine \in AnimatedMachines
       THEN /\ spins' = [spins EXCEPT ![i].at = "reels"]
            /\ UNCHANGED <<walletVars, machineVars, spinInProgress, spinCancellationToken,
                           boardVars>>
       ELSE LET totalWin == EvaluatePaylines(spins[i].targetGrid, currentBet)
            IN  /\ balance + totalWin <= MaxBalance
                /\ currentGrid' = spins[i].targetGrid
                /\ UNCHANGED <<reelStrip, reelPosition>>
                /\ SpinResult(i, totalWin, 0)

\* The end of a reel animation and the rest of RunSpin: the reels are
\* aligned to the target grid, which goes on the board, and the result
\* follows.  position is where the reels stand.
SpinStop(i, position) ==
    LET s == spins[i]
        strip == AlignedStrip(reelStrip, position, s.machine, s.targetGrid)
        aligned == AlignedPosition(reelStrip, position, s.machine, s.targetGrid)
        grid == GetGridFromReelAxes(strip, aligned, s.machine)
        totalWin == EvaluatePaylines(grid, currentBet)
    IN  /\ balance + totalWin <= MaxBalance
        /\ reelStrip' = strip
        /\ reelPosition' = aligned
        /\ currentGrid' = grid
        /\ \E award \in Awards(s) :
              /\ machine4FreeSpinsRemaining + award <= MaxFreeSpins
              /\ SpinResult(i, totalWin, award)

\* A timer wakes invocation i.  In the rolling phase ("reels") the
\* animation is left when ShouldContinue() fails; else the reels step down
\* and currentGrid follows them, and then the timer is set again, or the
\* phase is over: machine 4 aligns its reels and the result follows, machine
\* 3 starts its callback effect (pulses of the board border between timers,
\* "callback"), after which ShouldContinue() is asked again.
SpinWake(i) ==
    LET s == spins[i]
        stepped == StepReelAxesDown(reelPosition, s.machine)
    IN  /\ s.at \in {"reels", "callback"}
        /\ IF ~ShouldContinue(s)
           THEN SpinCanceled(i)
           ELSE IF s.at = "callback"
           THEN SpinStop(i, reelPosition)
           ELSE \/ /\ s.steps < MaxReelSteps
                   /\ spins' = [spins EXCEPT ![i].steps = @ + 1]
                   /\ reelPosition' = stepped
                   /\ currentGrid' = GetGridFromReelAxes(reelStrip, stepped, s.machine)
                   /\ UNCHANGED <<walletVars, machineVars, spinInProgress,
                                  spinCancellationToken, reelStrip, highlight>>
                \/ /\ s.machine = 3
                   /\ spins' = [spins EXCEPT ![i].at = "callback"]
                   /\ reelPosition' = stepped
                   /\ currentGrid' = GetGridFromReelAxes(reelStrip, stepped, s.machine)
                   /\ UNCHANGED <<walletVars, machineVars, spinInProgress,
                                  spinCancellationToken, reelStrip, highlight>>
                \/ /\ s.machine = 4
                   /\ SpinStop(i, stepped)

\* No invocation stands between taking the bet and its animation: an event
\* handler can run.
Idle == \A i \in 1..MaxSpins : spins[i].at # "started"

\* The invocation a call of RunSpin gets: the first one not under way.
FreeSpin(i) == spins[i].at = "none" /\ \A j \in 1..(i - 1) : spins[j].at # "none"

\* The game some spins in: what is left of the balance, and the bet that was
\* set; rewards and token are counted from here.
InitGameSession ==
    /\ InitTreeFor(SceneObjects, ComponentIds)
    /\ InitScene
    /\ \E b \in 0..MaxBalance, bet \in MinBet..BetCap : InitGameWith(b, bet)

NextGame ==
    \/ \E machine \in Machines :
          Idle /\ ~machineViewActive /\ OpenMachinePage(machine)
             /\ UNCHANGED <<sceneGraph, script, hostVars, positionVars>>
    \/ Idle /\ machineViewActive /\ spinCancellationToken < MaxToken /\ GoBackToLobby
          /\ UNCHANGED <<sceneGraph, script, hostVars, positionVars>>
    \/ \E offset \in {-1, 1} :
          Idle /\ currentBet + offset <= BetCap /\ ChangeBet(offset)
             /\ UNCHANGED <<sceneGraph, script, hostVars, positionVars>>
    \/ \E i \in 1..MaxSpins :
          Idle /\ FreeSpin(i) /\ spinCancellationToken < MaxToken /\ RunSpin(i)
             /\ UNCHANGED <<sceneGraph, script, hostVars, positionVars>>
    \/ \E i \in 1..MaxSpins :
          Idle /\ FreeSpin(i) /\ spinCancellationToken < MaxToken /\ NormalModeClick(i)
             /\ UNCHANGED <<sceneGraph, script, hostVars, positionVars>>
    \/ Idle /\ FreeSpinModeClick
          /\ UNCHANGED <<sceneGraph, script, hostVars, positionVars>>
    \/ \E i \in 1..MaxSpins :
          SpinPlay(i) /\ UNCHANGED <<sceneGraph, script, hostVars, positionVars>>
    \/ \E i \in 1..MaxSpins :
          Idle /\ SpinWake(i) /\ UNCHANGED <<sceneGraph, script, hostVars, positionVars>>

SpecGame == InitGameSession /\ [][NextGame]_vars

----------------------------------------------------------------------------
\* World position.  A Vector3 is three numbers that Add and Subtract treat
\* alike and apart: localPosition stands for one of them.  A number is a
\* binary floating-point number; the offsets are integers, and the result of
\* + and - is the exact result rounded to SignificandBits significant bits,
\* ties to the even significand.

Abs(x) == IF x < 0 THEN 0 - x ELSE x

\* The spacing of the representable numbers around magnitude a.
RECURSIVE Ulp(_, _)
Ulp(a, u) == IF a < (2 ^ SignificandBits) * u THEN u ELSE Ulp(a, 2 * u)

\* The number that stands for the exact result x of an addition or subtraction.
Round(x) ==
    LET a == Abs(x)
        u == Ulp(a, 1)
        q == a \div u
        r == a % u
        m == IF 2 * r < u THEN q * u
             ELSE IF 2 * r > u THEN (q + 1) * u
             ELSE IF q % 2 = 0 THEN q * u ELSE (q + 1) * u
    IN  IF x < 0 THEN 0 - m ELSE m

\* Transform.position (get), on a parent chain without a cycle
RECURSIVE Position(_)
Position(t) ==
    IF parent[t] = Null THEN localPosition[t]
    ELSE Round(Position(parent[t]) + localPosition[t])

\* A slip: the setter stores the world value as the local one.
LocalForNoParent(t, value) == value

\* Transform.position (set): the new localPosition
LocalFor(t, value) ==
    IF parent[t] = Null THEN value
    ELSE Round(value - Position(parent[t]))

\* transform.position = value
SetPosition(t, value) ==
    /\ localPosition' = [localPosition EXCEPT ![t] = LocalFor(t, value)]
    /\ UNCHANGED <<sceneGraph, hostVars, gameVars>>

\* transform.localPosition = new Vector3(value, ...)
SetLocalPosition(t, value) ==
    /\ localPosition' = [localPosition EXCEPT ![t] = value]
    /\ UNCHANGED <<sceneGraph, hostVars, gameVars>>

\* The local offsets written (0 is the offset from construction): small ones,
\* and the largest integer below which every integer is a number.
Offsets == {-1, 1, 2 ^ SignificandBits - 1}

InitPosition ==
    /\ InitObjectsFor(ChainLength, ComponentIds)
    /\ InitScene

\* The chain 1 > 2 > ... grows link by link from the top; offsets are written
\* and world positions are read and written back at any time.
NextPosition ==
    \/ \E t \in objects \ {1} :
          parent[t] = Null /\ (t = 2 \/ parent[t - 1] # Null) /\ SetParent(t, t - 1) /\ UNCHANGED <<script, hostVars, positionVars, gameVars>>
    \/ \E t \in objects, v \in Offsets : SetLocalPosition(t, v) /\ UNCHANGED script
    \/ \E t \in objects : SetPosition(t, Position(t)) /\ UNCHANGED script

SpecPosition == InitPosition /\ [][NextPosition]_vars

----------------------------------------------------------------------------
\* Visibility and interactivity: a Button or a Text on one of two GameObjects,
\* the flags written between the passes.

NextUIStyle ==
    \/ \E g \in objects, k \in {"Button", "Text"} :
          pc = "idle" /\ Cardinality(UICreated) < StyledComponents /\ AddUIComponent(g, k)
             /\ UNCHANGED <<script, positionVars, gameVars, engineVars>>
    \/ \E g \in objects :
          pc = "idle" /\ sceneRef[g] = Null /\ AddGameObject(g)
             /\ UNCHANGED <<script, positionVars, gameVars, hostVars>>
    \/ \E p \in {1, Null} :
          pc = "idle" /\ SetParent(2, p) /\ UNCHANGED <<script, positionVars, gameVars, hostVars>>
    \/ \E g \in objects, v \in BOOLEAN :
          pc = "idle" /\ SetActive(g, v) /\ UNCHANGED <<script, positionVars, gameVars, hostVars>>
    \/ \E c \in UICreated, v \in BOOLEAN :
          pc = "idle" /\ SetEnabled(c, v) /\ UNCHANGED <<script, positionVars, gameVars, hostVars>>
    \/ \E c \in UICreated, v \in BOOLEAN :
          pc = "idle" /\ SetVisible(c, v) /\ UNCHANGED <<script, positionVars, gameVars, engineVars>>
    \/ \E c \in UICreated, v \in BOOLEAN :
          pc = "idle" /\ SetInteractable(c, v) /\ UNCHANGED <<script, positionVars, gameVars, engineVars>>
    \/ \E c \in UICreated : pc = "idle" /\ Element(c) /\ UNCHANGED <<script, positionVars, gameVars, engineVars>>
    \/ ticks < MaxTicks /\ TickBegin /\ UNCHANGED <<script, positionVars, gameVars, hostVars>>
    \/ UIHook /\ UNCHANGED <<script, positionVars, gameVars, engineVars>>
    \/ UIHookReturn /\ UNCHANGED <<script, positionVars, gameVars, engineVars>>

SpecUIStyle == InitUI /\ [][NextUIStyle]_vars

----------------------------------------------------------------------------
\* The end-to-end scenario (SpecScenario).

Script == SubSeq(ops, 4, Len(ops))
Ticks(n) == [i \in 1..n |-> "tick"]
Updates(n) == [i \in 1..n |-> "Update"]
FirstPass == <<"Awake", "OnEnable", "Start">>

\* C1: with Root -> Child built and a logging MonoBehaviour on Child, n >= 1
\* passes leave the log Awake, OnEnable, Start and n Updates (so the first
\* Update comes in the pass of Start); after Root.activeSelf = false the next
\* pass appends exactly OnDisable and further passes append nothing; once Root
\* is active again the next pass appends OnEnable, Update.
C1_EndToEndLog ==
    (Built /\ pc = "idle") =>
        \A n \in 1..MaxScript :
            /\ Script = Ticks(n) => log = FirstPass \o Updates(n)
            /\ \A k \in 1..MaxScript :
                  /\ Script = Ticks(n) \o <<"off">> \o Ticks(k)
                        => log = FirstPass \o Updates(n) \o <<"OnDisable">>
                  /\ Script = Ticks(n) \o <<"off">> \o Ticks(k) \o <<"on", "tick">>
                        => log = FirstPass \o Updates(n) \o <<"OnDisable", "OnEnable", "Update">>

\* Three passes, Root deactivated, two more passes: the log ends with the one
\* OnDisable.
C1_Witness ==
    /\ Built
    /\ pc = "idle"
    /\ Script = <<"tick", "tick", "tick", "off", "tick", "tick">>
    /\ log = <<"Awake", "OnEnable", "Start", "Update", "Update", "Update", "OnDisable">>

----------------------------------------------------------------------------
\* The lifecycle scheduler (Spec).

\* The pass calls hook h of behaviour m in this step.
Invoked(m, h) == pc # h /\ pc' = h /\ monoBehaviours'[index'] = m

\* C2: Awake is invoked at most once and Start at most once per MonoBehaviour,
\* whatever passes, SetActive, enabled, SetParent, AddComponent and (repeated)
\* AddGameObject calls are interleaved.
C2_AwakeAndStartOnce ==
    [][\A m \in ComponentIds :
          /\ Invoked(m, "Awake") => m \notin everAwake
          /\ Invoked(m, "Start") => m \notin everStarted]_vars

\* C3: for each MonoBehaviour, OnEnable is only invoked after Awake has been,
\* Start only after an OnEnable, Update only after Start.
C3_HookOrder ==
    /\ pc = "OnEnable" => Current \in everAwake
    /\ pc = "Start" => lastToggle[Current] # "none"
    /\ pc = "Update" => Current \in everStarted

\* A behaviour is in Update in a later pass than the one that started it.
C3_Witness ==
    /\ pc = "Update"
    /\ ticks >= 1
    /\ Current \in everAwake \cap everStarted
    /\ lastToggle[Current] = "OnEnable"
    /\ state.started

\* C4: when the pass invokes Update of a behaviour, the behaviour is enabled
\* and its owner is active in the hierarchy at that instant.
C4_UpdateOnlyWhileEnabledAndActive ==
    [][\A m \in ComponentIds :
          Invoked(m, "Update") => (comp[m].enabled /\ activeInHierarchy(comp[m].owner))']_vars

\* C5: per MonoBehaviour OnEnable and OnDisable alternate, starting with
\* OnEnable.
C5_EnableDisableAlternate ==
    [][\A m \in ComponentIds :
          /\ Invoked(m, "OnEnable") => lastToggle[m] # "OnEnable"
          /\ Invoked(m, "OnDisable") => lastToggle[m] = "OnEnable"]_vars

\* C9 (state): a MonoBehaviour attached to a GameObject that has a Scene is in
\* the state table at once, not awake, not started, not enabled.
C9_StateAtOnce ==
    \A g \in objects :
        (sceneRef[g] # Null /\ AddComponent(g, "MonoBehaviour")) =>
            LET m == NewComponent("MonoBehaviour").id
            IN  m \in DOMAIN monoState' /\ monoState'[m] = FreshState

\* C9 (pass): a MonoBehaviour attached while a pass runs receives no hook in
\* that pass, and has received none before.
C9_NoHookInPass ==
    \A m \in addedInPass :
        m \notin passHooked /\ m \notin everAwake /\ lastToggle[m] = "none"

C10_AddGameObjectIdempotent ==
    [][\A g \in objects :
          (Includes(rootGameObjects, g) /\ AddGameObject(g)) =>
              (rootGameObjects' = rootGameObjects /\ Count(rootGameObjects', g) = 1)]_vars

\* Object 1 is the only root there has ever been, its behaviour was awoken in
\* a pass, and the table entry is fresh again: AddGameObject(1) has been
\* called a second time.
C10_Witness ==
    /\ rootGameObjects = <<1>>
    /\ pc = "idle"
    /\ comp[1].owner = 1
    /\ 1 \in everAwake
    /\ monoState[1] = FreshState

----------------------------------------------------------------------------
\* The object model (SpecObjectModel, SpecReparent, SpecComponents).

\* The ancestors of g: what the parent references reach from g.
RECURSIVE Reach(_, _)
Reach(S, n) == IF n = 0 THEN S ELSE Reach(S \cup ({parent[x] : x \in S} \ {Null}), n - 1)
Ancestors(g) == Reach({parent[g]} \ {Null}, Cardinality(objects))

\* C6: g.activeInHierarchy, read in any state, is true iff activeSelf is true
\* for g and for every ancestor of g.
C6_ActiveInHierarchy ==
    \A g \in objects :
        activeInHierarchy(g) <=> (activeSelf[g] /\ \A a \in Ancestors(g) : activeSelf[a])

\* An object and its parent are active, its grandparent is not.
C6_Witness ==
    \E g \in objects :
        /\ parent[g] # Null
        /\ parent[parent[g]] # Null
        /\ activeSelf[g]
        /\ activeSelf[parent[g]]
        /\ ~activeSelf[parent[parent[g]]]
        /\ ~activeInHierarchy(g)

\* C7: c occurs in p's child list once if c.parent is p, and not at all
\* otherwise.
C7_ChildListMatchesParent ==
    \A c \in objects, p \in objects :
        Count(children[p], c) = IF parent[c] = p THEN 1 ELSE 0

\* SetParent(p) was called on c twice in a row, after c had another parent or
\* none; p has a second child.
C7_Witness ==
    \E c \in objects, p \in objects :
        /\ ops = <<<<c, p>>, <<c, p>>>>
        /\ parent[c] = p
        /\ Len(children[p]) = 2

\* The Transform entries of g's component list.
TransformEntries(g) ==
    {i \in 1..Len(components[g]) : components[g][i].kind = TransformKind}

\* C8 (list): the component list of every GameObject starts with the Transform
\* of its construction and holds no other Transform; AddComponent(Transform)
\* returns that first entry.
C8_OneTransformFirst ==
    \A g \in objects :
        /\ components[g][1] = TransformOf(g)
        /\ TransformEntries(g) = {1}
        /\ AddComponentResult(g, TransformKind) = components[g][1]

\* C8 (call): AddComponent(Transform) appends nothing.
C8_TransformNotAppended ==
    \A g \in objects : AddComponent(g, TransformKind) => UNCHANGED components

\* C8: after any sequence of AddComponent calls every component list has the
\* Transform of the construction as its first entry and no other Transform, and
\* AddComponent(Transform) returns that instance and appends nothing.
C8_SingleTransform == []C8_OneTransformFirst /\ [][C8_TransformNotAppended]_vars

\* A GameObject with two components attached after its Transform.
C8_Witness ==
    \E g \in objects :
        /\ Len(components[g]) = 3
        /\ components[g][1] = TransformOf(g)
        /\ components[g][2].kind = "MonoBehaviour"
        /\ components[g][3].kind = "Renderer"

----------------------------------------------------------------------------
\* The Scene back-reference (Spec).

\* C11: in every state reached by AddGameObject and SetParent calls, every
\* GameObject the Scene's traversal reaches from the root list through the
\* child lists has the Scene as its sceneRef.
C11_ReachableHasScene ==
    \A g \in objects : Includes(GetAllGameObjects, g) => sceneRef[g] = TheScene

----------------------------------------------------------------------------
\* The Engine (SpecEngine).

\* C12: Engine.Start() called while the engine is running schedules no frame
\* callback and leaves previousTimestamp and the pending handle as they are.
C12_StartIdempotent ==
    [][(running /\ EngineStart) =>
          /\ pendingFrames' = pendingFrames
          /\ nextHandle' = nextHandle
          /\ previousTimestamp' = previousTimestamp
          /\ frameHandle' = frameHandle]_vars

\* A hook of the running tick has called Start(): the engine is running and
\* the host keeps no callback, the one of this tick being executed.
C12_Witness ==
    /\ pc \in HookPcs
    /\ hookCalls = 1
    /\ running
    /\ frameCount >= 1
    /\ pendingFrames = {}

\* C13: while the engine is stopped (Stop() called, Start() not called since)
\* nothing of a tick executes: no clock advance, no hook is invoked, no render
\* pass and no reset of the input latches, also when Stop() was called from a
\* hook inside a tick.
C13_NothingRunsWhileStopped ==
    [][~running =>
          /\ UNCHANGED timeVars
          /\ ~(pc' \in HookPcs /\ pc' # pc)
          /\ ~(epc = "render" /\ epc' # epc)
          /\ ~(epc = "endFrame" /\ epc' # epc)]_vars

Stages == <<"clock", "lifecycle", "render", "latches">>

\* C14 (stages): a tick goes through clock advance, lifecycle pass, render pass
\* and latch reset in this order, each once; when it has, one scheduler pass
\* per tick has completed and both latches are empty.
C14_Order ==
    /\ \E n \in 0..Len(Stages) : frameTrace = SubSeq(Stages, 1, n)
    /\ epc = "schedule" =>
          /\ frameTrace = Stages
          /\ ticks = frameCount
          /\ downKeys = {}
          /\ upKeys = {}
    /\ pc # "idle" => frameCount = ticks + 1

\* C14 (clock): the tick starts by setting deltaTime to the seconds since the
\* previous timestamp, adding it to time and adding 1 to frameCount.
C14_Clock ==
    (epc = "idle" /\ epc' = "tick") =>
        /\ deltaTime' * 1000 = now' - previousTimestamp
        /\ time' = time + deltaTime'
        /\ frameCount' = frameCount + 1
        /\ previousTimestamp' = now'

----------------------------------------------------------------------------
\* The render pass (SpecRender).

\* The GameObjects some parent chain connects to a root of the Scene.
UnderRoots ==
    {g \in objects : \E a \in Ancestors(g) \cup {g} : Includes(rootGameObjects, a)}

\* The Renderers that are enabled, on an owner under the roots, with the owner
\* and all its ancestors active.
DrawableRenderers ==
    {r \in Created :
        /\ comp[r].kind = "Renderer"
        /\ comp[r].enabled
        /\ comp[r].owner \in UnderRoots
        /\ activeSelf[comp[r].owner]
        /\ \A a \in Ancestors(comp[r].owner) : activeSelf[a]}

\* C15: the render pass invokes Render on exactly the Renderers reachable from
\* the Scene roots that are enabled and whose owner is active in the hierarchy
\* at that moment, in the order of the depth-first traversal and, per
\* GameObject, of attachment; a Renderer needs AddComponent only.
C15_RenderPass ==
    [][Render =>
          /\ {surface'[i] : i \in 1..Len(surface')} = DrawableRenderers
          /\ surface' = SelectSeq(GetRenderersInScene, LAMBDA r : r \in DrawableRenderers)]_vars

\* The pass has just drawn the Renderer of a GameObject that was parented
\* under a root after the root was hosted (its sceneRef is null), and has left
\* out the disabled Renderer of the root.
C15_Witness ==
    /\ Len(surface) = 1
    /\ surface = SelectSeq(GetRenderersInScene, Drawn)
    /\ sceneRef[comp[surface[1]].owner] = Null
    /\ \E r \in Created :
          /\ ~comp[r].enabled
          /\ Includes(rootGameObjects, comp[r].owner)
          /\ comp[r].kind = "Renderer"

----------------------------------------------------------------------------
\* UI components and their host nodes (SpecUI, SpecUIChain).

\* The body of a binding hook (Awake, Start, Update) of the current component
\* has run to its end in this step.
BindingHookRuns == pc \in BindingHooks /\ ~hookRan /\ hookRan'

\* C16: the host node of a UI component is created on the first access (a read
\* of Element, or the first hook, Awake) and is the same node ever after: as
\* long as OnDestroy has not run, one node has been created for the component
\* at most, and the only step that changes the reference to an existing node is
\* the OnDestroy that clears it.
C16_CreatedOnce ==
    \A c \in UISlots : c \notin destroyed => nodesCreated[c] <= 1

C16_Kept ==
    /\ \A c \in UISlots :
          (domElement[c] # Null /\ domElement'[c] # domElement[c]) =>
             (c \in destroyed' \ destroyed /\ domElement'[c] = Null)
    /\ (pc = "Awake" /\ BindingHookRuns) => domElement'[Current] # Null
    /\ \A c \in UICreated : (pc = "idle" /\ Element(c)) => domElement'[c] # Null

C16_NodeCreatedOnce == []C16_CreatedOnce /\ [][C16_Kept]_vars

\* A component has kept its node over two passes and a deactivation of its
\* GameObject (OnDisable was its last toggle).
C16_Witness ==
    /\ pc = "idle"
    /\ ticks = MaxTicks
    /\ \E c \in UICreated \ destroyed :
          /\ domElement[c] = ElementNode(c, 1)
          /\ nodesCreated[c] = 1
          /\ lastToggle[c] = "OnDisable"
          /\ hidden[domElement[c]]

\* node is a proper descendant of anc in the host document
Descends(node, anc) ==
    /\ node # Null
    /\ anc # Null
    /\ node # anc
    /\ anc \in InclusiveAncestors(Host, node)

\* GameObject 1 is a root of the Scene, 2 its child, 3 the child of 2.
ChainBuilt ==
    /\ Includes(rootGameObjects, 1)
    /\ parent[2] = 1
    /\ parent[3] = 2

CanvasPanelButton ==
    /\ ChainBuilt
    /\ GetComponent(1, "Canvas") # Null
    /\ GetComponent(2, "Panel") # Null
    /\ GetComponent(3, "Button") # Null

ScrollRectPanelText ==
    /\ ChainBuilt
    /\ GetComponent(1, "ScrollRect") # Null
    /\ GetComponent(2, "Panel") # Null
    /\ GetComponent(3, "Text") # Null

C17_Nested ==
    /\ CanvasPanelButton =>
          /\ Descends(domElement[GetComponent(3, "Button")], domElement[GetComponent(2, "Panel")])
          /\ Descends(domElement[GetComponent(2, "Panel")], domElement[GetComponent(1, "Canvas")])
    /\ ScrollRectPanelText =>
          /\ Descends(domElement[GetComponent(3, "Text")],
                      contentElement[GetComponent(1, "ScrollRect")])
          /\ Descends(domElement[GetComponent(2, "Panel")],
                      contentElement[GetComponent(1, "ScrollRect")])

\* The viewport of a ScrollRect holds its content node and nothing else.
C17_ViewportHoldsContent ==
    \A u \in UICreated :
       (comp[u].kind = "ScrollRect" /\ domElement[u] # Null) =>
          childNodes[domElement[u]] = <<contentElement[u]>>

\* C17: when a pass over the chain Canvas > Panel > Button ends, the Button's
\* node is a descendant of the Panel's node, which is a descendant of the
\* Canvas's node; when a pass over ScrollRect > Panel > Text ends, the Text's
\* node is under the ScrollRect's content node; and at no time has the outer
\* viewport of a ScrollRect a child other than its content node.
C17_HostTreeMirrorsChain ==
    []C17_ViewportHoldsContent /\ [][ticks' = ticks + 1 => C17_Nested']_vars

\* Two passes over ScrollRect > Panel > Text have ended: the Panel's node is
\* the one child of the content node, the Text's node the one child of the
\* Panel's node.
C17_Witness ==
    /\ pc = "idle"
    /\ ticks = MaxTicks
    /\ ScrollRectPanelText
    /\ contentElement[GetComponent(1, "ScrollRect")] # Null
    /\ domElement[GetComponent(2, "Panel")] # Null
    /\ childNodes[contentElement[GetComponent(1, "ScrollRect")]] =
          <<domElement[GetComponent(2, "Panel")]>>
    /\ childNodes[domElement[GetComponent(2, "Panel")]] = <<domElement[GetComponent(3, "Text")]>>

\* The container of GameObject g that takes the children: the first of
\* ScrollRect, Canvas, Panel, Image that g hosts, 0 for none.
PreferredOn(g) ==
    LET hosted == SelectSeq(ParentKinds, LAMBDA k : GetComponent(g, k) # Null)
    IN  IF hosted = <<>> THEN Null ELSE GetComponent(g, hosted[1])

\* The container on the nearest ancestor of g that hosts one, 0 for none.
RECURSIVE NearestContainer(_)
NearestContainer(g) ==
    IF parent[g] = Null THEN Null
    ELSE IF PreferredOn(parent[g]) # Null THEN PreferredOn(parent[g])
    ELSE NearestContainer(parent[g])

\* The node of container u that takes the children.
ContentNodeOf(u) == IF comp[u].kind = "ScrollRect" THEN contentElement[u] ELSE domElement[u]

C18_UnderNearest ==
    \A c \in UICreated :
       (Includes(GetAllGameObjects, comp[c].owner) /\ NearestContainer(comp[c].owner) # Null) =>
          /\ domElement[c] # Null
          /\ parentElement[domElement[c]] = ContentNodeOf(NearestContainer(comp[c].owner))

\* C18: when a pass ends, the node of every UI component of the Scene with a
\* container (ScrollRect, Canvas, Panel, Image, preferred in this order) on
\* some ancestor is a child of the content node of the container on the
\* nearest such ancestor.
C18_NearestAncestor == [][ticks' = ticks + 1 => C18_UnderNearest']_vars

\* The target the claim names for a component without a container above it:
\* the first Canvas of the Scene other than the component, else the UI root.
FirstCanvasButSelf(c) ==
    LET others == SelectSeq(GetCanvasesInScene, LAMBDA u : u # c)
    IN  IF others = <<>> THEN Null ELSE others[1]

\* The first Canvas of the Scene hosted by a GameObject other than c's.
FirstCanvasElsewhere(c) ==
    LET others == SelectSeq(GetCanvasesInScene, LAMBDA u : comp[u].owner # comp[c].owner)
    IN  IF others = <<>> THEN Null ELSE others[1]

\* The component whose binding hook has run is bound to the node of Canvas u,
\* or to the UI root when u is 0.
BoundToCanvasOrRoot(c, u) ==
    attachedParent'[c] = (IF u = Null THEN UIRootElement ELSE domElement'[u])

C20_NoMutationWhenBound ==
    [][(/\ BindingHookRuns
        /\ domElement[Current] # Null
        /\ parentElement[domElement[Current]] # Null
        /\ parentElement[domElement[Current]] = ResolveParentElement(Host, Current).node) =>
          /\ childNodes' = childNodes
          /\ parentElement' = parentElement]_vars

\* Update has run on the component whose node is the first of the two children
\* of its target, and the node is still the first.
C20_Witness ==
    /\ pc = "Update"
    /\ hookRan
    /\ domElement[Current] # Null
    /\ attachedParent[Current] # Null
    /\ Len(childNodes[attachedParent[Current]]) = 2
    /\ childNodes[attachedParent[Current]][1] = domElement[Current]
    /\ parentElement[domElement[Current]] = attachedParent[Current]

----------------------------------------------------------------------------
\* Visibility and interactivity (SpecUIStyle).

C21_Shown ==
    \A c \in UICreated :
       (/\ domElement[c] # Null
        /\ c \in everAwake
        /\ Includes(GetAllGameObjects, comp[c].owner)) =>
          (hidden[domElement[c]] <=> ~IsVisible(c))

\* C21: when a pass ends, the node of every UI component that has one is shown
\* (hidden = false) exactly if Visible, enabled and the owner's
\* activeInHierarchy all hold.  Stated for the components the claim cannot but
\* mean: those on a GameObject reachable from the Scene roots whose Awake has
\* run.
C21_ShownIffVisible == [][ticks' = ticks + 1 => C21_Shown']_vars

\* The node of a visible component of the Scene after a pass: shown, and
\* interactive as the Interactable flag says.
C22_Styled ==
    \A c \in UICreated :
       (IsVisible(c) /\ Includes(GetAllGameObjects, comp[c].owner)) =>
          /\ domElement[c] # Null
          /\ ~hidden[domElement[c]]
          /\ pointerEvents[domElement[c]] = (IF Interactable[c] THEN "auto" ELSE "none")
          /\ comp[c].kind = "Button" => (disabled[domElement[c]] <=> ~Interactable[c])

C22_FlagKept ==
    (pc # "idle" \/ pc' # "idle" \/ Visible' # Visible) =>
       \A c \in UICreated : Interactable'[c] = Interactable[c]

\* C22: no step of a pass and no write of Visible changes Interactable; when a
\* pass ends, the node of a component of the Scene that is visible (Visible,
\* enabled, owner active in the hierarchy) is shown, with interaction disabled
\* (pointer-events none, a Button disabled) exactly if Interactable is false.
C22_VisibleIndependentOfInteractable ==
    [][C22_FlagKept /\ (ticks' = ticks + 1 => C22_Styled')]_vars

\* Two passes have ended on a Button that is shown and rejects interaction.
C22_Witness ==
    /\ pc = "idle"
    /\ ticks = MaxTicks
    /\ \E c \in UICreated :
          /\ comp[c].kind = "Button"
          /\ Visible[c]
          /\ ~Interactable[c]
          /\ domElement[c] # Null
          /\ ~hidden[domElement[c]]
          /\ disabled[domElement[c]]
          /\ pointerEvents[domElement[c]] = "none"

----------------------------------------------------------------------------
\* Teardown (SpecUI).

C23_StaysDestroyed ==
    \A c \in destroyed :
       /\ (domElement[c] = Null) => (domElement'[c] = Null)
       /\ nodesCreated'[c] = nodesCreated[c]

\* C23: once OnDestroy of a UI component has run, its node reference is null
\* and no hook of a later pass creates a node for it: the reference stays null
\* and the count of the nodes created for the component stays as it is.
C23_NoResurrection == [][(pc \in HookPcs) => C23_StaysDestroyed]_vars

----------------------------------------------------------------------------
\* Binding under a running Engine (SpecUIBinding).

\* Every UI component the passes reach has its node in the host tree.
C24_Attached ==
    pc = "idle" =>
       \A c \in UICreated :
          Includes(GetAllGameObjects, comp[c].owner) =>
             /\ domElement[c] # Null
             /\ parentElement[domElement[c]] # Null

\* C24: once the hierarchy has stopped changing and the passes go on, there is
\* a pass from whose end on the node of every UI component the passes reach is
\* attached whenever no pass is running (the Engine's UI root exists, so there
\* is a target for each of them).
C24_EventuallyBound == <>[]C24_Attached

----------------------------------------------------------------------------
\* World position (SpecPosition).

\* The sum of the local offsets from t up its parent chain, as an integer.
RECURSIVE ExactSum(_)
ExactSum(t) ==
    IF parent[t] = Null THEN localPosition[t]
    ELSE ExactSum(parent[t]) + localPosition[t]

\* Every integer up to this magnitude is a number (2^53 in the source).
MaxExact == 2 ^ SignificandBits

\* The sums down to t and to every Transform above it are within MaxExact.
SumsExact(t) == \A a \in {t} \cup Ancestors(t) : Abs(ExactSum(a)) <= MaxExact

\* C25 as stated: in a chain of 1 to 5 Transforms with integer offsets, the
\* world position of each Transform is the sum of the offsets up its chain, and
\* writing the position just read back leaves localPosition as it is.
C25_RoundTrip ==
    \A t \in objects :
       /\ Position(t) = ExactSum(t)
       /\ LocalFor(t, Position(t)) = localPosition[t]

\* C25, amended: the same for every Transform whose sums of offsets, its own
\* and those of the Transforms above it, are within the range in which every
\* integer is a number.
C25_RoundTripExact ==
    \A t \in objects :
       SumsExact(t) =>
          /\ Position(t) = ExactSum(t)
          /\ LocalFor(t, Position(t)) = localPosition[t]

\* A chain of five with an offset on every Transform, all sums in range: the
\* position of the last one is the sum, and writing it back changes nothing.
C25_Witness ==
    /\ parent[ChainLength] = ChainLength - 1
    /\ \A t \in objects : localPosition[t] # 0 /\ SumsExact(t)
    /\ localPosition[1] = 2 ^ SignificandBits - 1
    /\ Position(ChainLength) = ExactSum(ChainLength)
    /\ Position(ChainLength) # localPosition[ChainLength]
    /\ LocalFor(ChainLength, Position(ChainLength)) = localPosition[ChainLength]

----------------------------------------------------------------------------
\* Errors thrown by hooks (SpecUI: appendChild throws when the target lies
\* inside the node).

\* The hook the pass has called throws.
HookThrows ==
    /\ pc \in HookPcs
    /\ comp[Current].kind \in UIKinds
    /\ ~hookRan
    /\ HookResult(Current, pc).thrown

\* The behaviours whose turn in the pass is still to come: those listed after
\* the executing one and not up to it (a GameObject that is both a root and a
\* child is traversed twice, and its behaviours are listed twice).
Later ==
    {monoBehaviours[j] : j \in (index + 1)..Len(monoBehaviours)}
       \ {monoBehaviours[j] : j \in 1..index}

\* C26: when a hook throws, the pass is left: the behaviours later in the
\* order of the traversal have had no hook in this pass and get none, since
\* the step of the throw ends the pass with nothing recorded for anyone.
C26_ThrowEndsPass ==
    [][HookThrows =>
          /\ Later \cap passHooked = {}
          /\ pc' = "idle"
          /\ monoBehaviours' = <<>>
          /\ monoState' = monoState
          /\ everAwake' = everAwake /\ everStarted' = everStarted /\ log' = log]_vars

\* A hook that throws while a behaviour is still to come in the pass.
C26_Witness == HookThrows /\ Later # {}

----------------------------------------------------------------------------
\* Cycles in the hierarchy (SpecReparent).  A getter or a traversal that calls
\* itself again on a GameObject it is already executing for, with nothing it
\* reads changed in between, goes on calling itself: it never returns.

\* GameObject.activeInHierarchy on g never returns; seen are the GameObjects
\* whose getter is executing.
RECURSIVE ActiveNeverReturns(_, _)
ActiveNeverReturns(g, seen) ==
    IF ~activeSelf[g] \/ parent[g] = Null THEN FALSE
    ELSE IF parent[g] \in seen \cup {g} THEN TRUE
    ELSE ActiveNeverReturns(parent[g], seen \cup {g})

\* Transform.position (get) on t never returns.
RECURSIVE PositionNeverReturns(_, _)
PositionNeverReturns(t, seen) ==
    IF parent[t] = Null THEN FALSE
    ELSE IF parent[t] \in seen \cup {t} THEN TRUE
    ELSE PositionNeverReturns(parent[t], seen \cup {t})

\* Scene.CollectGameObjects(current, all) never returns.
RECURSIVE CollectNeverReturns(_, _)
CollectNeverReturns(current, seen) ==
    \E i \in 1..Len(children[current]) :
       \/ children[current][i] \in seen \cup {current}
       \/ CollectNeverReturns(children[current][i], seen \cup {current})

\* g lies on a cycle of parent references.
OnCycle(g) == g \in Ancestors(g)

\* SetParent(p) on c with p the Transform itself or one of its descendants.
ClosesCycle(c, p) == parent[c] # p /\ (p = c \/ c \in Ancestors(p))

\* The call c.SetParent(p) is the step.
SetParentCalled(c, p) == ops' = LastTwo(Append(ops, <<c, p>>))

\* Every GameObject of the cycle has activeSelf true.
CycleActive(g) == \A a \in Ancestors(g) : activeSelf[a]

\* C27: SetParent(p) on a Transform with p the Transform itself or one of its
\* descendants is carried out, the Transform is then on a cycle of parent
\* references, and on every GameObject of the cycle activeInHierarchy (all
\* of them active), the world-position getter and the depth-first traversal
\* never return.
C27_CycleNeverReturns ==
    [][\A c \in objects, p \in objects :
          ClosesCycle(c, p) /\ SetParentCalled(c, p) =>
             /\ parent'[c] = p
             /\ OnCycle(c)'
             /\ \A g \in objects :
                   OnCycle(g)' =>
                      /\ CycleActive(g)' => ActiveNeverReturns(g, {})'
                      /\ PositionNeverReturns(g, {})'
                      /\ CollectNeverReturns(g, {})']_vars

\* A Transform was made the child of its grandchild: a cycle of three, all
\* active, on which neither getter nor the traversal returns.
C27_Witness ==
    /\ Len(ops) > 0
    /\ LET c == ops[Len(ops)][1]
           p == ops[Len(ops)][2]
       IN  /\ p # Null /\ p # c /\ parent[c] = p
           /\ parent[p] # c
           /\ OnCycle(c) /\ CycleActive(c)
           /\ ActiveNeverReturns(c, {})
           /\ PositionNeverReturns(c, {})
           /\ CollectNeverReturns(c, {})

----------------------------------------------------------------------------
\* Registration by AddGameObject (Spec).

\* The MonoBehaviours attached to g or to a GameObject below g.
SubtreeBehaviours(g) ==
    {m \in Created : comp[m].kind \in MonoKinds /\ comp[m].owner \in {g} \cup Descendants(g)}

\* C28: when AddGameObject(g) returns, the state table has an entry for every
\* MonoBehaviour attached to g or to a descendant of g.
C28_SubtreeRegistered ==
    [][\A g \in objects :
          AddGameObject(g) => SubtreeBehaviours(g) \subseteq DOMAIN monoState']_vars

----------------------------------------------------------------------------
\* Reachability and lazily created lifecycle state (SpecLazy).

\* The behaviours the running pass lists.
Listed == {monoBehaviours[j] : j \in 1..Len(monoBehaviours)}

\* The MonoBehaviours on the GameObjects the traversal reaches from the roots.
Reachable ==
    {m \in Created : comp[m].kind \in MonoKinds /\ Includes(GetAllGameObjects, comp[m].owner)}

\* C29 (reachability): a pass lists the MonoBehaviours reachable from the root
\* list when it begins, keeps that list to its end, and calls hooks of listed
\* behaviours only.
C29_OnlyReachable ==
    /\ (pc = "idle" /\ pc' = "loop") => Listed' = Reachable
    /\ (pc # "idle" /\ pc' # "idle") => monoBehaviours' = monoBehaviours
    /\ (pc # "idle") => passHooked' \subseteq Listed

\* The pass is about to return.
PassEnds == pc = "loop" /\ index > Len(monoBehaviours)

\* C29 (first pass): at the end of a pass, a behaviour that had no lifecycle
\* state when the pass began and is active and enabled has had Awake,
\* OnEnable, Start and Update, in this order and nothing else, and its state
\* is in the table.
C29_FirstPass ==
    PassEnds =>
       \A m \in ops[1] :
          (activeInHierarchy(comp[m].owner) /\ comp[m].enabled) =>
             /\ log = <<"Awake", "OnEnable", "Start", "Update">>
             /\ m \in DOMAIN monoState
             /\ monoState[m] = [awake |-> TRUE, started |-> TRUE, enabledInHierarchy |-> TRUE]

\* C29: in each pass a MonoBehaviour receives hooks only if its GameObject is
\* reachable from the Scene's root list at the start of the pass, and an
\* active, enabled behaviour that became reachable without registration gets
\* Awake, OnEnable, Start and Update in its first pass, from a state created
\* on the visit with all flags false.
C29_EligibleIfReachable == [][C29_OnlyReachable]_vars /\ []C29_FirstPass

\* The end of the first pass over a behaviour whose owner was parented under a
\* hosted GameObject and never got the Scene reference: its four hooks ran.
C29_Witness ==
    /\ PassEnds
    /\ ops[1] = {1}
    /\ sceneRef[Child] = Null
    /\ parent[Child] = Root
    /\ log = <<"Awake", "OnEnable", "Start", "Update">>

----------------------------------------------------------------------------
\* The game (SpecGame).

\* The selected machine is machine 4 in free-spin mode.
InFreeSpinMode == selectedMachine = 4 /\ machine4Mode = "freeSpin"

\* C30 as stated: a call of RunSpin outside free-spin mode with a balance
\* below the bet leaves balance, totalRewards, spinInProgress and the token as
\* they are; every other call takes exactly the bet from the balance, before
\* any reel step.
C30_SpinCostsBet ==
    [][\A i \in 1..MaxSpins :
          RunSpin(i) =>
             IF ~InFreeSpinMode /\ balance < currentBet
             THEN UNCHANGED <<balance, totalRewards, spinInProgress, spinCancellationToken>>
             ELSE balance' = balance - currentBet /\ spins'[i].steps = 0]_vars

\* The call of RunSpin is accepted: no spin in progress, a machine selected,
\* and the bet covered or not needed.
Accepted ==
    /\ ~spinInProgress
    /\ selectedMachine # Null
    /\ InFreeSpinMode \/ balance >= currentBet

\* C30, amended: a call of RunSpin outside free-spin mode with a balance below
\* the bet changes nothing; an accepted call outside free-spin mode takes
\* exactly the bet from the balance before any reel step; a call in free-spin
\* mode, with a spin in progress or with no machine selected takes nothing;
\* and no other step of the game lowers the balance.
C30_AcceptedSpinCostsBet ==
    [][/\ \A i \in 1..MaxSpins :
             RunSpin(i) =>
                /\ (~InFreeSpinMode /\ balance < currentBet) =>
                      UNCHANGED <<balance, totalRewards, spinInProgress, spinCancellationToken>>
                /\ (Accepted /\ ~InFreeSpinMode) =>
                      /\ balance' = balance - currentBet
                      /\ spins'[i].at = "started" /\ spins'[i].steps = 0
                /\ (~Accepted \/ InFreeSpinMode) => balance' = balance
       /\ balance' < balance =>
             \E i \in 1..MaxSpins : RunSpin(i) /\ balance' = balance - currentBet]_vars

\* An invocation on a machine with reels has taken the bet, the last one the
\* balance covered, and has not begun its animation.
C30_Witness ==
    \E i \in 1..MaxSpins :
       /\ spins[i].at = "started" /\ spins[i].steps = 0
       /\ spins[i].machine \in AnimatedMachines
       /\ ~spins[i].isMachine4FreeSpin
       /\ spinInProgress /\ spins[i].localSpinToken = spinCancellationToken
       /\ balance < currentBet

----------------------------------------------------------------------------
\* Invocation i of RunSpin ends in this step: by its result or by the return
\* after a failed ShouldContinue().
SpinEnds(i) == spins[i].at # "none" /\ spins'[i].at = "none"

----------------------------------------------------------------------------
\* Invocation i waits for a timer and its ShouldContinue() would return true.
SuspendedLive(i) == spins[i].at \in {"reels", "callback"} /\ ShouldContinue(spins[i])

\* C38: whenever an invocation of RunSpin is suspended at a timer wait and its
\* ShouldContinue() would still return true, spinInProgress is true.
C38_LiveSpinInProgress ==
    \A i \in 1..MaxSpins : SuspendedLive(i) => spinInProgress

\* C39: balance is never negative.
C39_BalanceNonNegative == balance >= 0

\* A spin has taken the last of the balance and waits for a timer.
C39_Witness ==
    /\ balance = 0
    /\ \E i \in 1..MaxSpins :
          /\ spins[i].at = "reels" /\ ~spins[i].isMachine4FreeSpin
          /\ ShouldContinue(spins[i])

\* C40: wherever no game function is in the middle of its execution (between
\* events and at every timer wait), machine4FreeSpinsRemaining >= 0, and
\* machine4Mode = "freeSpin" implies machine4FreeSpinsRemaining > 0.
C40_FreeSpinModeHasSpins ==
    Idle =>
       /\ machine4FreeSpinsRemaining >= 0
       /\ machine4Mode = "freeSpin" => machine4FreeSpinsRemaining > 0

\* Machine 4 is in free-spin mode with its last free spin under way, at a
\* timer wait.
C40_Witness ==
    /\ machine4Mode = "freeSpin" /\ machine4FreeSpinsRemaining = 1
    /\ \E i \in 1..MaxSpins :
          /\ spins[i].at = "reels" /\ spins[i].isMachine4FreeSpin
          /\ ShouldContinue(spins[i])

----------------------------------------------------------------------------
\* Invocation i is suspended at a timer wait.
AtTimer(i) == spins[i].at \in {"reels", "callback"}

\* The token of invocation i is behind the generation token.
Superseded(i) == spins[i].localSpinToken < spinCancellationToken

\* C32: the spin animation cancels itself through the generation token.
\* GoBackToLobby leaves every spin that is suspended at a timer wait with a
\* token behind the generation token; the generation token never goes back
\* and a suspended spin keeps its token; and a spin whose token is behind,
\* when a timer resumes it, changes neither balance, totalRewards,
\* currentGrid, the reel positions, the win-line highlight nor the free-spin
\* count and mode of machine 4.
C32_CancelledSpinChangesNothing ==
    [][/\ spinCancellationToken' >= spinCancellationToken
       /\ \A i \in 1..MaxSpins :
             AtTimer(i) =>
                /\ GoBackToLobby => Superseded(i)'
                /\ spins'[i].at # "none" =>
                      spins'[i].localSpinToken = spins[i].localSpinToken
                /\ (Superseded(i) /\ SpinWake(i)) =>
                      UNCHANGED <<balance, totalRewards, currentGrid, reelPosition,
                                  highlight, machine4FreeSpinsRemaining, machine4Mode>>]_vars

\* A spin whose animation GoBackToLobby interrupted is still at its timer
\* wait, its machine is open again and its view is shown: only the token
\* stands between the spin and the rest of its animation.
C32_Witness ==
    \E i \in 1..MaxSpins :
       /\ AtTimer(i) /\ Superseded(i)
       /\ selectedMachine = spins[i].machine /\ machineViewActive
       /\ spins[i].targetGrid # currentGrid

----------------------------------------------------------------------------
\* C33: for one Engine at most one frame callback is pending at any time,
\* for any interleaving of Start() and Stop(), also from inside a hook.
C33_OnePendingFrame == Cardinality(pendingFrames) <= 1

\* C34: while the engine is running (Start() called and Stop() not called
\* since), a frame callback is pending whenever no tick is executing, also
\* after a tick in which a hook or Render threw.
C34_RunningHasPendingFrame ==
    (running /\ epc = "idle") => pendingFrames # {}

----------------------------------------------------------------------------
\* C35: within one scheduler pass each MonoBehaviour receives Update at most
\* once, for any scene built with AddGameObject and SetParent in any order.
C35_UpdateOncePerPass ==
    \A i, j \in 1..Len(ops) : ops[i] = ops[j] => i = j

----------------------------------------------------------------------------
\* The UI components whose node has a parent in the document.
AttachedUI == {c \in UICreated : domElement[c] # Null /\ parentElement[domElement[c]] # Null}

\* The parent links from the node of c reach the UI root.
ReachesUIRoot(c) == UIRootElement \in InclusiveAncestors(Host, domElement[c])

\* C36: the host UI tree stays a tree rooted at the UI root of the Engine.
\* Parent resolution never selects a target inside the component's own host
\* subtree (the host never has to refuse the append), and between the passes
\* the parent links from every attached UI node reach the UI root.
C36_ResolvesOutside == ~HookThrows
C36_Rooted == (pc = "idle") => \A c \in AttachedUI : ReachesUIRoot(c)
C36_HostTreeRooted == C36_ResolvesOutside /\ C36_Rooted

----------------------------------------------------------------------------
\* The script ends with a pass that found the flag true, the flag set to
\* false and back to true, and the pass that is running or has just ended.
Toggled(offOp, onOp) ==
    /\ Len(ops) = 4
    /\ ops[1][1] = "tick" /\ ops[1][2][offOp]
    /\ ops[2][1] = offOp /\ ops[3][1] = onOp
    /\ ops[4][1] = "tick"

ToggledBetweenTicks ==
    Toggled("off", "on") \/ Toggled("childOff", "childOn") \/ Toggled("disable", "enable")

\* A call that writes a flag
ToggleOps == {"off", "on", "childOff", "childOn", "disable", "enable"}

\* C37: hooks are driven by the state sampled during a tick only: when
\* activeSelf or enabled is set to false and back to true between two
\* consecutive ticks, the second tick invokes neither OnDisable nor OnEnable,
\* and the calls between the ticks invoke no hook and leave the lifecycle
\* table alone.
C37_ToggleUnseen ==
    [][/\ (pc # "idle" /\ ToggledBetweenTicks) => pc' \notin {"OnEnable", "OnDisable"}
       /\ (ops' # ops /\ ops'[Len(ops')][1] \in ToggleOps) =>
             UNCHANGED <<monoState, histVars, pc>>]_vars

\* The pass after a toggle has reached Update of the behaviour, which it
\* found enabled as the pass before left it.
C37_Witness ==
    /\ ToggledBetweenTicks
    /\ pc = "Update"
    /\ state.enabledInHierarchy /\ state.started

=============================================================================
